---------------------------- MODULE Spec2Model ----------------------------
(***************************************************************************)
(* A model of libloot's plugin sorter (src/api/sorting/plugin_sorter.cpp)  *)
(* and of the parts of the game cache and database it reads.               *)
(*                                                                         *)
(* One behaviour is one call of PluginSorter::Sort on a game snapshot      *)
(* drawn by Init: the vertices are created, the edges are layered in phase *)
(* by phase, the graph is checked for cycles and sorted topologically.     *)
(* File names are sequences of character codes, so that case folding, the  *)
(* basename and the extension are computed and not assumed.                *)
(***************************************************************************)
EXTENDS Integers, Sequences, FiniteSets, TLC

VARIABLES
  game,                  \* the game snapshot and the metadata documents (inputs)
  pc,                    \* position inside Sort
  vertices,              \* graph_: the vertex list, in insertion order
  edges,                 \* graph_: the edges, in insertion order
  pathsCache,            \* pathsCache_
  groupPluginsToIgnore,  \* AddGroupEdges' ignore map, as left by its scan
  acyclicEdgePairs,      \* AddGroupEdges' queued pairs, as left by its scan
  output,                \* the sequence Sort returned
  error,                 \* the exception Sort threw ("" when none)
  errorGroup,            \* the group an UndefinedGroupError names
  resolver,              \* a call of GetTransitiveAfterGroups: input and result
  cache,                 \* the GameCache: its four maps and its mutex
  threads,               \* the threads calling the cache: position, call, result
  history,               \* what happened to the cache so far
  evaluator,             \* the ConditionEvaluator, its last call and its past
  dataFiles,             \* the files in the game's data directory
  database,              \* the ApiDatabase: its documents, its last call
  probe                  \* the last call of AddEdge or EdgeCreatesCycle

\* The variables of a call of Sort, and the others.
sortVars == <<game, pc, vertices, edges, pathsCache, groupPluginsToIgnore,
              acyclicEdgePairs, output, error, errorGroup>>

cacheVars == <<cache, threads, history>>

evalVars == <<evaluator, dataFiles>>

dbVars == <<database>>

nonSortVars == <<resolver, cacheVars, evalVars, dbVars, probe>>

vars == <<sortVars, nonSortVars>>

\* The value of the variables of a component that is not running.
Idle == [pc |-> "idle"]

-----------------------------------------------------------------------------
(* Bounds of the model.                                                    *)

\* The largest number of plugins in the cache.
MaxPlugins == 3

\* The largest number of calls of the GameCache in one run.
MaxCalls == 3

\* The largest number of components of a path in a condition.
MaxComponents == 4

-----------------------------------------------------------------------------
(* File names.                                                             *)

A_esm      == <<65, 46, 101, 115, 109>>                       \* "A.esm"
b_esm      == <<98, 46, 101, 115, 109>>                       \* "b.esm"
b_esp      == <<98, 46, 101, 115, 112>>                       \* "b.esp"
D_ESP      == <<68, 46, 69, 83, 80>>                          \* "D.ESP"
c_esp      == <<99, 46, 101, 115, 112>>                       \* "c.esp"
d_esp      == <<100, 46, 101, 115, 112>>                      \* "d.esp"
x_esp      == <<120, 46, 101, 115, 112>>                      \* "x.esp"
Update_esm == <<85, 112, 100, 97, 116, 101, 46, 101, 115, 109>>  \* "Update.esm"
update_esm == <<117, 112, 100, 97, 116, 101, 46, 101, 115, 109>> \* "update.esm"
dot_ghost  == <<46, 103, 104, 111, 115, 116>>                 \* ".ghost"

\* The name of the default group: Group().GetName().
DefaultGroup == ""

RECURSIVE SeqToSet(_)
SeqToSet(s) == IF s = <<>> THEN {} ELSE {Head(s)} \cup SeqToSet(Tail(s))

ToLowerChar(c) == IF c \in 65..90 THEN c + 32 ELSE c

ToLower(name) == [i \in 1..Len(name) |-> ToLowerChar(name[i])]

\* Lexicographic three-way comparison of two sequences of character codes.
RECURSIVE CompareCodes(_, _)
CompareCodes(s, t) ==
  IF s = <<>> /\ t = <<>> THEN 0
  ELSE IF s = <<>> THEN -1
  ELSE IF t = <<>> THEN 1
  ELSE IF Head(s) < Head(t) THEN -1
  ELSE IF Head(s) > Head(t) THEN 1
  ELSE CompareCodes(Tail(s), Tail(t))

\* CompareFilenames: the case-insensitive three-way comparison of file names.
CompareFilenames(lhs, rhs) == CompareCodes(ToLower(lhs), ToLower(rhs))

\* loot::equivalent on two file names.
equivalent(lhs, rhs) == CompareFilenames(lhs, rhs) = 0

\* std::string::substr(pos, count), pos counted from 0.
Substr(s, pos, count) ==
  [i \in 1..(IF Len(s) - pos < count THEN Len(s) - pos ELSE count) |-> s[pos + i]]

-----------------------------------------------------------------------------
(* The plugin graph.  A vertex is its position in the vertex list; an edge *)
(* is a record [from, to, type]; a graph state is a record                 *)
(* [v |-> vertex list, e |-> edge list, p |-> paths cache].                *)

EdgeTypes == {"hardcoded", "masterFlag", "master", "masterlistRequirement",
              "userRequirement", "masterlistLoadAfter", "userLoadAfter",
              "group", "overlap", "tieBreak"}

\* std::optional<vertex_t>: 0 stands for std::nullopt.
NoVertex == 0

\* GetVertexByName comparing the names exactly (a mutant).
GetVertexByName_CaseSensitive(V, name) ==
  LET hits == {i \in 1..Len(V) : V[i].name = name}
  IN IF hits = {} THEN NoVertex
     ELSE CHOOSE i \in hits : \A j \in hits : i <= j

\* PluginSorter::GetVertexByName: the first vertex whose name equals `name`
\* case-insensitively.
GetVertexByName(V, name) ==
  LET hits == {i \in 1..Len(V) : CompareFilenames(V[i].name, name) = 0}
  IN IF hits = {} THEN NoVertex
     ELSE CHOOSE i \in hits : \A j \in hits : i <= j

\* boost::edge(u, v, graph_).second
HasEdge(E, u, v) == \E i \in 1..Len(E) : E[i].from = u /\ E[i].to = v

\* boost::adjacent_vertices(v, graph_): the targets of v's out-edges, in the
\* order the edges were added.
RECURSIVE AdjacentVertices(_, _)
AdjacentVertices(E, v) ==
  IF E = <<>> THEN <<>>
  ELSE IF Head(E).from = v THEN <<Head(E).to>> \o AdjacentVertices(Tail(E), v)
  ELSE AdjacentVertices(Tail(E), v)

\* boost::inv_adjacent_vertices(v, graph_): the sources of v's in-edges.
RECURSIVE InvAdjacentVertices(_, _)
InvAdjacentVertices(E, v) ==
  IF E = <<>> THEN <<>>
  ELSE IF Head(E).to = v THEN <<Head(E).from>> \o InvAdjacentVertices(Tail(E), v)
  ELSE InvAdjacentVertices(Tail(E), v)

\* AddEdge without the lookup in the paths cache (a mutant).
AddEdge_NoLookup(g, fromVertex, toVertex, edgeType) ==
  [g EXCEPT !.e = Append(@, [from |-> fromVertex, to |-> toVertex, type |-> edgeType]),
            !.p = @ \cup {<<fromVertex, toVertex>>}]

\* PluginSorter::AddEdge: nothing is added for a pair the paths cache holds.
AddEdge(g, fromVertex, toVertex, edgeType) ==
  IF <<fromVertex, toVertex>> \in g.p THEN g
  ELSE [g EXCEPT
          !.e = Append(@, [from |-> fromVertex, to |-> toVertex,
                           type |-> edgeType]),
          !.p = @ \cup {<<fromVertex, toVertex>>}]

\* The inner loop of the forward half of EdgeCreatesCycle's search: every
\* unvisited adjacent vertex is cached as reachable from start, marked and
\* queued.  st = [q |-> queue, vis |-> visited set, p |-> paths cache].
RECURSIVE VisitForward(_, _, _)
VisitForward(adj, start, st) ==
  IF adj = <<>> THEN st
  ELSE LET a == Head(adj) IN
       IF a \in st.vis THEN VisitForward(Tail(adj), start, st)
       ELSE VisitForward(Tail(adj), start,
                         [q   |-> Append(st.q, a),
                          vis |-> st.vis \cup {a},
                          p   |-> st.p \cup {<<start, a>>}])

\* The inner loop of the reverse half: every unvisited predecessor is cached
\* as reaching end.
RECURSIVE VisitReverse(_, _, _)
VisitReverse(adj, end, st) ==
  IF adj = <<>> THEN st
  ELSE LET a == Head(adj) IN
       IF a \in st.vis THEN VisitReverse(Tail(adj), end, st)
       ELSE VisitReverse(Tail(adj), end,
                         [q   |-> Append(st.q, a),
                          vis |-> st.vis \cup {a},
                          p   |-> st.p \cup {<<a, end>>}])

\* The while loop of EdgeCreatesCycle, one iteration per call.
RECURSIVE BidirectionalSearch(_, _, _, _, _, _, _, _)
BidirectionalSearch(E, start, end, fq, rq, fv, rv, p) ==
  IF fq = <<>> \/ rq = <<>> THEN [result |-> FALSE, p |-> p]
  ELSE
    LET v == Head(fq) IN
    IF v = end \/ v \in rv THEN [result |-> TRUE, p |-> p]
    ELSE
      LET f  == VisitForward(AdjacentVertices(E, v), start,
                             [q |-> Tail(fq), vis |-> fv, p |-> p])
          rvtx == Head(rq)
      IN
      IF rvtx = start \/ rvtx \in f.vis THEN [result |-> TRUE, p |-> f.p]
      ELSE
        LET r == VisitReverse(InvAdjacentVertices(E, rvtx), end,
                              [q |-> Tail(rq), vis |-> rv, p |-> f.p])
        IN BidirectionalSearch(E, start, end, f.q, r.q, f.vis, r.vis, r.p)

\* EdgeCreatesCycle that looks at the paths cache alone (a mutant).
EdgeCreatesCycle_CacheOnly(g, fromVertex, toVertex) == [result |-> <<toVertex, fromVertex>> \in g.p, p |-> g.p]

\* PluginSorter::EdgeCreatesCycle: [result, p], p the paths cache afterwards.
EdgeCreatesCycle(g, fromVertex, toVertex) ==
  IF <<toVertex, fromVertex>> \in g.p THEN [result |-> TRUE, p |-> g.p]
  ELSE BidirectionalSearch(g.e, toVertex, fromVertex,
                           <<toVertex>>, <<fromVertex>>,
                           {toVertex}, {fromVertex}, g.p)

-----------------------------------------------------------------------------
(* Groups.  A group is a record [name, afterGroups]; a set of groups holds *)
(* at most one group per name (Group's equality and hash are by name).     *)

Group(name, afterGroups) == [name |-> name, afterGroups |-> afterGroups]

GroupNames(groups) == {gr.name : gr \in groups}

\* *groups.find(Group(name))
FindGroup(groups, name) == CHOOSE gr \in groups : gr.name = name

\* std::unordered_set<Group>::insert: a group whose name is present is kept.
InsertGroup(groups, gr) ==
  IF gr.name \in GroupNames(groups) THEN groups ELSE groups \cup {gr}

\* GetGroups that gives the userlist's after-groups alone for a group of
\* both documents (a mutant).
GetGroups_UserlistWins(masterlistGroups, userlistGroups, includeUserMetadata) ==
  IF ~includeUserMetadata
  THEN InsertGroup(masterlistGroups, Group(DefaultGroup, {}))
  ELSE InsertGroup(userlistGroups \cup {gr \in masterlistGroups : gr.name \notin GroupNames(userlistGroups)},
                   Group(DefaultGroup, {}))

\* ApiDatabase::GetGroups.
GetGroups(masterlistGroups, userlistGroups, includeUserMetadata) ==
  IF ~includeUserMetadata
  THEN InsertGroup(masterlistGroups, Group(DefaultGroup, {}))
  ELSE
    LET merged ==
          {IF gr.name \in GroupNames(userlistGroups)
           THEN Group(gr.name,
                      gr.afterGroups \cup
                      FindGroup(userlistGroups, gr.name).afterGroups)
           ELSE gr : gr \in masterlistGroups}
        withUser ==
          merged \cup {gr \in userlistGroups : gr.name \notin GroupNames(merged)}
    IN InsertGroup(withUser, Group(DefaultGroup, {}))

\* The after-groups of `names`, and theirs, and so on.
RECURSIVE ReachableGroups(_, _, _)
ReachableGroups(groups, names, seen) ==
  LET next == UNION {FindGroup(groups, n).afterGroups : n \in names} \ seen
  IN IF next = {} THEN seen
     ELSE ReachableGroups(groups, next, seen \cup next)

\* GetTransitiveAfterGroups(masterlistGroups, userGroups): the groups of both
\* documents are merged by name; an after-group that is not defined or a cycle
\* of after-groups is an error, and otherwise every group is mapped to the
\* groups it transitively loads after.
GetTransitiveAfterGroups(masterlistGroups, userGroups) ==
  LET groups == GetGroups(masterlistGroups, userGroups, TRUE)
      names  == GroupNames(groups)
      undefined == UNION {gr.afterGroups : gr \in groups} \ names
  IN IF undefined # {}
     THEN [err |-> "UndefinedGroupError", map |-> <<>>]
     ELSE
       LET closure == [n \in names |->
                         ReachableGroups(groups, {n}, {})]
       IN IF \E n \in names : n \in closure[n]
          THEN [err |-> "CyclicInteractionError", map |-> <<>>]
          ELSE [err |-> "", map |-> closure]

-----------------------------------------------------------------------------
(* GetTransitiveAfterGroups in detail: the exception's content and the     *)
(* order of the traversal.  The groups and the after-groups of a group are *)
(* held in unordered sets; `order` lists the group names in the order the  *)
(* sets iterate them.                                                      *)

\* The names of `names` in iteration order.
InOrder(names, order) == SelectSeq(order, LAMBDA n : n \in names)

\* The after-groups that are not defined, in the order the groups and their
\* after-groups are iterated.
RECURSIVE UndefinedAfterGroups(_, _, _)
UndefinedAfterGroups(groups, order, names) ==
  IF names = <<>> THEN <<>>
  ELSE InOrder(FindGroup(groups, Head(names)).afterGroups
                 \ GroupNames(groups), order)
         \o UndefinedAfterGroups(groups, order, Tail(names))

\* The position of the first entry of `stack` equal to `name`.
StackPosition(stack, name) ==
  CHOOSE i \in 1..Len(stack) :
    stack[i] = name /\ \A j \in 1..(i - 1) : stack[j] # name

\* The depth-first traversal with a stack of the groups being visited:
\* visiting a group that is on the stack is a cycle, reported as the stack
\* from that group on; <<>> when the traversal finds no cycle.
RECURSIVE FirstCycle(_, _, _, _)

\* FindCycle reporting the whole stack (a mutant).
FindCycle_WholeStack(groups, order, name, stack) ==
  IF name \in SeqToSet(stack)
  THEN stack
  ELSE FirstCycle(groups, order,
                  InOrder(FindGroup(groups, name).afterGroups, order),
                  Append(stack, name))

RECURSIVE FindCycle(_, _, _, _)
FindCycle(groups, order, name, stack) ==
  IF name \in SeqToSet(stack)
  THEN SubSeq(stack, StackPosition(stack, name), Len(stack))
  ELSE FirstCycle(groups, order,
                  InOrder(FindGroup(groups, name).afterGroups, order),
                  Append(stack, name))

FirstCycle(groups, order, names, stack) ==
  IF names = <<>> THEN <<>>
  ELSE LET cycle == FindCycle(groups, order, Head(names), stack)
       IN IF cycle # <<>> THEN cycle
          ELSE FirstCycle(groups, order, Tail(names), stack)

\* The traversal that collects the after-groups without visiting theirs (a
\* mutant).
RECURSIVE VisitAfterGroups_Direct(_, _, _, _)
VisitAfterGroups_Direct(groups, order, names, visited) ==
  IF names = <<>> THEN visited
  ELSE VisitAfterGroups_Direct(groups, order, Tail(names),
                               visited \cup {Head(names)})

\* The traversal from one group that collects the groups it visits.
RECURSIVE VisitAfterGroups(_, _, _, _)
VisitAfterGroups(groups, order, names, visited) ==
  IF names = <<>> THEN visited
  ELSE IF Head(names) \in visited
       THEN VisitAfterGroups(groups, order, Tail(names), visited)
       ELSE VisitAfterGroups(
              groups, order, Tail(names),
              VisitAfterGroups(
                groups, order,
                InOrder(FindGroup(groups, Head(names)).afterGroups, order),
                visited \cup {Head(names)}))

\* A vertex of the cycle a CyclicInteractionError carries.
CycleVertex(name) == [name |-> name, typeOfEdgeToNextVertex |-> "LoadAfter"]

\* GetTransitiveAfterGroups(groups) with the sets iterated in `order`: the
\* exception thrown (with the group or the cycle it carries) or the map.
\* Which of the two exceptions a set of groups with both defects gets is not
\* fixed by the description of the function: `first` is the defect that is
\* looked for first, "undefined" or "cycle".
TransitiveAfterGroups(groups, order, first) ==
  LET names == InOrder(GroupNames(groups), order)
      undefined == UndefinedAfterGroups(groups, order, names)
      defined == {[gr EXCEPT !.afterGroups = @ \cap GroupNames(groups)] :
                    gr \in groups}
      cycle == FirstCycle(defined, order, names, <<>>)
      none == [err |-> "", group |-> "", cycle |-> <<>>, map |-> <<>>]
      undefinedGroupError ==
        [none EXCEPT !.err = "UndefinedGroupError", !.group = Head(undefined)]
      cyclicInteractionError ==
        [none EXCEPT !.err = "CyclicInteractionError",
                     !.cycle = [i \in 1..Len(cycle) |-> CycleVertex(cycle[i])]]
  IN IF undefined # <<>> /\ (first = "undefined" \/ cycle = <<>>)
     THEN undefinedGroupError
     ELSE IF cycle # <<>>
     THEN cyclicInteractionError
     ELSE [none EXCEPT !.map =
             [n \in GroupNames(groups) |->
                VisitAfterGroups(groups, order,
                                 InOrder(FindGroup(groups, n).afterGroups, order),
                                 {})]]

-----------------------------------------------------------------------------
(* Phase 1: the vertices.                                                  *)

\* PluginSortingData's load order index: the position (from 0) of the first
\* entry of the load order that names the plugin, -1 when there is none.
LoadOrderIndex(name, loadOrder) ==
  LET hits == {i \in 1..Len(loadOrder) : CompareFilenames(name, loadOrder[i]) = 0}
  IN IF hits = {} THEN -1
     ELSE (CHOOSE i \in hits : \A j \in hits : i <= j) - 1

\* std::optional<size_t>::has_value() of a load order index.
HasValue(index) == index >= 0

\* PluginSortingData(plugin, masterlistMetadata, userMetadata, loadOrder).
PluginSortingData(plugin, loadOrder) ==
  [name                    |-> plugin.name,
   isMaster                |-> plugin.isMaster,
   masters                 |-> plugin.masters,
   masterlistRequirements  |-> plugin.masterlistRequirements,
   userRequirements        |-> plugin.userRequirements,
   masterlistLoadAfter     |-> plugin.masterlistLoadAfter,
   userLoadAfter           |-> plugin.userLoadAfter,
   group                   |-> plugin.group,
   formIDs                 |-> plugin.formIDs,
   loadOrderIndex          |-> LoadOrderIndex(plugin.name, loadOrder),
   afterGroupPlugins       |-> {}]

\* GameCache::GetPlugins returns a std::set of shared pointers, which is
\* ordered by the pointers' addresses: every enumeration of the cached plugins
\* is a possible iteration order.
Enumerations(plugins) ==
  {o \in [1..Cardinality(plugins) -> plugins] :
     \A i, j \in 1..Cardinality(plugins) : i # j => o[i] # o[j]}

\* The first vertex whose group is not a key of the map, 0 if there is none.
FirstUndefinedGroup(V, groupMap) ==
  LET bad == {i \in 1..Len(V) : V[i].group \notin DOMAIN groupMap}
  IN IF bad = {} THEN 0 ELSE CHOOSE i \in bad : \A j \in bad : i <= j

\* AddPluginVertices giving a plugin whose group is not in the map no
\* after-group plugins instead of throwing (a mutant).
AddPluginVertices_NoGroupCheck(gm, order) ==
  LET V0 == [i \in 1..Len(order) |-> PluginSortingData(order[i], gm.loadOrder)]
      groupPlugins == [gn \in {V0[i].group : i \in 1..Len(V0)} |->
                         {V0[i].name : i \in {k \in 1..Len(V0) : V0[k].group = gn}}]
      trans == GetTransitiveAfterGroups(
                 GetGroups(gm.masterlistGroups, gm.userGroups, FALSE),
                 gm.userGroups)
      merged == GetGroups(gm.masterlistGroups, gm.userGroups, TRUE)
  IN IF trans.err # ""
     THEN [v |-> V0, err |-> trans.err,
           named |-> IF trans.err = "UndefinedGroupError"
                     THEN UNION {gr.afterGroups : gr \in merged}
                            \ GroupNames(merged)
                     ELSE {}]
     ELSE
       LET transitivePlugins ==
             [gn \in DOMAIN trans.map |->
                UNION {groupPlugins[a] :
                         a \in trans.map[gn] \cap DOMAIN groupPlugins}]
       IN [v |-> [i \in 1..Len(V0) |->
                    [V0[i] EXCEPT !.afterGroupPlugins =
                                    IF V0[i].group \in DOMAIN transitivePlugins
                                    THEN transitivePlugins[V0[i].group]
                                    ELSE {}]],
           err |-> "", named |-> {}]

\* PluginSorter::AddPluginVertices on the plugins in the order the cache's set
\* enumerates them: [v |-> the vertex list, err |-> the exception thrown,
\* named |-> the groups an UndefinedGroupError can name].
AddPluginVertices(gm, order) ==
  LET V0 == [i \in 1..Len(order) |-> PluginSortingData(order[i], gm.loadOrder)]
      groupPlugins == [gn \in {V0[i].group : i \in 1..Len(V0)} |->
                         {V0[i].name : i \in {k \in 1..Len(V0) : V0[k].group = gn}}]
      trans == GetTransitiveAfterGroups(
                 GetGroups(gm.masterlistGroups, gm.userGroups, FALSE),
                 gm.userGroups)
      merged == GetGroups(gm.masterlistGroups, gm.userGroups, TRUE)
  IN IF trans.err # ""
     THEN [v |-> V0, err |-> trans.err,
           named |-> IF trans.err = "UndefinedGroupError"
                     THEN UNION {gr.afterGroups : gr \in merged}
                            \ GroupNames(merged)
                     ELSE {}]
     ELSE
       LET transitivePlugins ==
             [gn \in DOMAIN trans.map |->
                UNION {groupPlugins[a] :
                         a \in trans.map[gn] \cap DOMAIN groupPlugins}]
       IN IF FirstUndefinedGroup(V0, transitivePlugins) # 0
          THEN [v |-> V0, err |-> "UndefinedGroupError",
                named |-> {V0[FirstUndefinedGroup(V0, transitivePlugins)].group}]
          ELSE [v |-> [i \in 1..Len(V0) |->
                         [V0[i] EXCEPT !.afterGroupPlugins =
                                         transitivePlugins[V0[i].group]]],
                err |-> "", named |-> {}]

-----------------------------------------------------------------------------
(* Phase 2: the specific edges.                                            *)

\* MasterFlagEdges with the edge drawn from the plugin that is not a master
\* (a mutant).
RECURSIVE MasterFlagEdges_Swapped(_, _, _)
MasterFlagEdges_Swapped(g, vit, vit2) ==
  IF vit2 > Len(g.v) THEN g
  ELSE IF g.v[vit].isMaster = g.v[vit2].isMaster
       THEN MasterFlagEdges_Swapped(g, vit, vit2 + 1)
       ELSE LET parentVertex == IF g.v[vit2].isMaster THEN vit ELSE vit2
                vertex       == IF g.v[vit2].isMaster THEN vit2 ELSE vit
            IN MasterFlagEdges_Swapped(
                 AddEdge(g, parentVertex, vertex, "masterFlag"), vit, vit2 + 1)

\* The inner loop over vit2 = vit .. vitend: a masterFlag edge from the master
\* of the pair to the other plugin.
RECURSIVE MasterFlagEdges(_, _, _)
MasterFlagEdges(g, vit, vit2) ==
  IF vit2 > Len(g.v) THEN g
  ELSE IF g.v[vit].isMaster = g.v[vit2].isMaster
       THEN MasterFlagEdges(g, vit, vit2 + 1)
       ELSE LET parentVertex == IF g.v[vit2].isMaster THEN vit2 ELSE vit
                vertex       == IF g.v[vit2].isMaster THEN vit ELSE vit2
            IN MasterFlagEdges(AddEdge(g, parentVertex, vertex, "masterFlag"),
                               vit, vit2 + 1)

\* One of the five loops over the files a plugin names: an edge from each file
\* that is a vertex.
RECURSIVE NamedFileEdges(_, _, _, _)
NamedFileEdges(g, vit, files, edgeType) ==
  IF files = <<>> THEN g
  ELSE LET parentVertex == GetVertexByName(g.v, Head(files))
       IN NamedFileEdges(IF parentVertex # NoVertex
                         THEN AddEdge(g, parentVertex, vit, edgeType)
                         ELSE g,
                         vit, Tail(files), edgeType)

\* The body of AddSpecificEdges' outer loop for the vertex vit.
SpecificEdgesOf(g, vit) ==
  LET g1 == MasterFlagEdges(g, vit, vit)
      g2 == NamedFileEdges(g1, vit, g.v[vit].masters, "master")
      g3 == NamedFileEdges(g2, vit, g.v[vit].masterlistRequirements,
                           "masterlistRequirement")
      g4 == NamedFileEdges(g3, vit, g.v[vit].userRequirements,
                           "userRequirement")
      g5 == NamedFileEdges(g4, vit, g.v[vit].masterlistLoadAfter,
                           "masterlistLoadAfter")
  IN NamedFileEdges(g5, vit, g.v[vit].userLoadAfter, "userLoadAfter")

RECURSIVE SpecificEdgesFrom(_, _)
SpecificEdgesFrom(g, vit) ==
  IF vit > Len(g.v) THEN g
  ELSE SpecificEdgesFrom(SpecificEdgesOf(g, vit), vit + 1)

\* PluginSorter::AddSpecificEdges.
AddSpecificEdges(g) == SpecificEdgesFrom(g, 1)

-----------------------------------------------------------------------------
(* Phase 3: the hardcoded edges.  The data directory is the set gm.files   *)
(* of the names of the files in it.                                        *)

\* std::filesystem::exists(game.DataPath() / name)
Exists(gm, name) == name \in gm.files

\* The path AddHardcodedPluginEdges looks a vertex's file up under: its name,
\* or its name with ".ghost" appended when no file has its name.
GraphPluginPath(gm, name) ==
  IF Exists(gm, name) THEN name ELSE name \o dot_ghost

\* The loop over the vertices without the ".ghost" fallback (a mutant).
RECURSIVE HardcodedEdgesOf_NoGhost(_, _, _, _, _)
HardcodedEdgesOf_NoGhost(g, gm, pluginVertex, vit, processedPluginPaths) ==
  IF vit > Len(g.v) THEN g
  ELSE LET graphPluginPath == g.v[vit].name
       IN IF ~Exists(gm, graphPluginPath)
          THEN HardcodedEdgesOf_NoGhost(g, gm, pluginVertex, vit + 1,
                                        processedPluginPaths)
          ELSE HardcodedEdgesOf_NoGhost(
                 IF graphPluginPath \notin processedPluginPaths
                 THEN AddEdge(g, pluginVertex, vit, "hardcoded")
                 ELSE g,
                 gm, pluginVertex, vit + 1, processedPluginPaths)

\* The loop over the vertices for one implicitly active plugin.
RECURSIVE HardcodedEdgesOf(_, _, _, _, _)
HardcodedEdgesOf(g, gm, pluginVertex, vit, processedPluginPaths) ==
  IF vit > Len(g.v) THEN g
  ELSE LET graphPluginPath == GraphPluginPath(gm, g.v[vit].name)
       IN IF ~Exists(gm, graphPluginPath)
          THEN HardcodedEdgesOf(g, gm, pluginVertex, vit + 1,
                                processedPluginPaths)
          ELSE HardcodedEdgesOf(
                 IF graphPluginPath \notin processedPluginPaths
                 THEN AddEdge(g, pluginVertex, vit, "hardcoded")
                 ELSE g,
                 gm, pluginVertex, vit + 1, processedPluginPaths)

\* Whether the loop skips the plugin as Skyrim's Update.esm: the continue is
\* inside the if (logger_) block.
SkipsUpdateEsm(gm, plugin) ==
  /\ gm.gameType = "tes5"
  /\ equivalent(plugin, update_esm)
  /\ gm.hasLogger

\* The loop over the implicitly active plugins, from the k-th on.
RECURSIVE HardcodedEdgesFrom(_, _, _, _)
HardcodedEdgesFrom(g, gm, k, processedPluginPaths) ==
  IF k > Len(gm.implicitlyActivePlugins) THEN g
  ELSE
    LET plugin == gm.implicitlyActivePlugins[k] IN
    IF ~Exists(gm, plugin)
    THEN \* std::filesystem::canonical throws: the plugin is skipped
         HardcodedEdgesFrom(g, gm, k + 1, processedPluginPaths)
    ELSE
      LET processed == processedPluginPaths \cup {plugin}
          pluginVertex == GetVertexByName(g.v, plugin)
      IN IF SkipsUpdateEsm(gm, plugin) \/ pluginVertex = NoVertex
         THEN HardcodedEdgesFrom(g, gm, k + 1, processed)
         ELSE HardcodedEdgesFrom(
                HardcodedEdgesOf(g, gm, pluginVertex, 1, processed),
                gm, k + 1, processed)

\* PluginSorter::AddHardcodedPluginEdges.
AddHardcodedPluginEdges(g, gm) == HardcodedEdgesFrom(g, gm, 1, {})

-----------------------------------------------------------------------------
(* Phase 4: the group edges.  The ignore map is a function from the group  *)
(* names it has entries for to sets of plugin names.                       *)

shouldIgnorePlugin(group, pluginName, ignoreMap) ==
  group \in DOMAIN ignoreMap /\ pluginName \in ignoreMap[group]

shouldIgnoreGroupEdge(fromPlugin, toPlugin, ignoreMap) ==
  \/ shouldIgnorePlugin(fromPlugin.group, toPlugin.name, ignoreMap)
  \/ shouldIgnorePlugin(toPlugin.group, fromPlugin.name, ignoreMap)

ignorePlugin(pluginName, groups, ignoreMap) ==
  IF groups = {} THEN ignoreMap
  ELSE
  [gn \in DOMAIN ignoreMap \cup groups |->
     IF gn \in groups
     THEN (IF gn \in DOMAIN ignoreMap THEN ignoreMap[gn] ELSE {}) \cup {pluginName}
     ELSE ignoreMap[gn]]

\* pathfinder: the groups visited on the paths from `group` to the target,
\* following after-groups.
RECURSIVE pathfinder(_, _, _, _)
pathfinder(group, targetGroupName, groups, visitedGroups) ==
  IF group.name = targetGroupName THEN visitedGroups
  ELSE IF group.afterGroups = {} THEN {}
  ELSE
    LET visited == visitedGroups \cup {group.name}
        mergedVisitedGroups ==
          UNION {pathfinder(FindGroup(groups, afterGroupName),
                            targetGroupName, groups, visited) :
                   afterGroupName \in group.afterGroups}
    IN IF mergedVisitedGroups = {} THEN {}
       ELSE visited \cup mergedVisitedGroups

\* getGroupsInPaths searching from the first group for the last (a mutant).
getGroupsInPaths_Swapped(groups, firstGroupName, lastGroupName) ==
  pathfinder(FindGroup(groups, firstGroupName), lastGroupName, groups, {})
    \ {lastGroupName}

\* getGroupsInPaths without the erasure of the last group (a mutant).
getGroupsInPaths_KeepLast(groups, firstGroupName, lastGroupName) ==
  pathfinder(FindGroup(groups, lastGroupName), firstGroupName, groups, {})

getGroupsInPaths(groups, firstGroupName, lastGroupName) ==
  pathfinder(FindGroup(groups, lastGroupName), firstGroupName, groups, {})
    \ {lastGroupName}

\* The order in which a vertex's after-group plugins are iterated.  They are
\* held in a std::unordered_set, whose iteration order is unspecified: the two
\* orders modelled are the vertex order and its reverse.
RECURSIVE NamesInVertexOrder(_, _, _)
NamesInVertexOrder(V, names, i) ==
  IF i > Len(V) THEN <<>>
  ELSE (IF V[i].name \in names THEN <<V[i].name>> ELSE <<>>)
         \o NamesInVertexOrder(V, names, i + 1)

Reverse(s) == [i \in 1..Len(s) |-> s[Len(s) + 1 - i]]

AfterGroupPluginOrder(V, names, hashOrder) ==
  IF hashOrder = "ascending" THEN NamesInVertexOrder(V, names, 1)
  ELSE Reverse(NamesInVertexOrder(V, names, 1))

\* The body of the scan's inner loop without the test of the master flags
\* (a mutant).
GroupScanStep_NoMasterTest(sc, groups, vertex, pluginName) ==
  LET parentVertex == GetVertexByName(sc.g.v, pluginName) IN
  IF parentVertex = NoVertex THEN sc
  ELSE
    LET c  == EdgeCreatesCycle(sc.g, parentVertex, vertex)
        g1 == [sc.g EXCEPT !.p = c.p]
        fromPlugin == sc.g.v[parentVertex]
        toPlugin   == sc.g.v[vertex]
    IN
    IF ~c.result
    THEN [sc EXCEPT !.g = g1,
                    !.pairs = Append(@, <<parentVertex, vertex>>)]
    ELSE IF toPlugin.group # DefaultGroup /\ fromPlugin.group # DefaultGroup
    THEN [sc EXCEPT !.g = g1]
    ELSE
      LET pluginToIgnore == IF toPlugin.group = DefaultGroup
                            THEN toPlugin.name ELSE fromPlugin.name
          groupsInPaths  == getGroupsInPaths(groups, fromPlugin.group,
                                             toPlugin.group)
      IN [sc EXCEPT !.g = g1,
                    !.ignore = ignorePlugin(pluginToIgnore, groupsInPaths, @)]

\* The body of the scan's inner loop for one (vertex, pluginName).
\* sc = [g |-> graph state, ignore |-> ignore map, pairs |-> queued pairs].
GroupScanStep(sc, groups, vertex, pluginName) ==
  LET parentVertex == GetVertexByName(sc.g.v, pluginName) IN
  IF parentVertex = NoVertex THEN sc
  ELSE
    LET c  == EdgeCreatesCycle(sc.g, parentVertex, vertex)
        g1 == [sc.g EXCEPT !.p = c.p]
        fromPlugin == sc.g.v[parentVertex]
        toPlugin   == sc.g.v[vertex]
    IN
    IF ~c.result
    THEN [sc EXCEPT !.g = g1,
                    !.pairs = Append(@, <<parentVertex, vertex>>)]
    ELSE IF ~fromPlugin.isMaster /\ toPlugin.isMaster
    THEN [sc EXCEPT !.g = g1]
    ELSE IF toPlugin.group # DefaultGroup /\ fromPlugin.group # DefaultGroup
    THEN [sc EXCEPT !.g = g1]
    ELSE
      LET pluginToIgnore == IF toPlugin.group = DefaultGroup
                            THEN toPlugin.name ELSE fromPlugin.name
          groupsInPaths  == getGroupsInPaths(groups, fromPlugin.group,
                                             toPlugin.group)
      IN [sc EXCEPT !.g = g1,
                    !.ignore = ignorePlugin(pluginToIgnore, groupsInPaths, @)]

RECURSIVE GroupScanNames(_, _, _, _)
GroupScanNames(sc, groups, vertex, names) ==
  IF names = <<>> THEN sc
  ELSE GroupScanNames(GroupScanStep(sc, groups, vertex, Head(names)),
                      groups, vertex, Tail(names))

RECURSIVE GroupScanFrom(_, _, _, _)
GroupScanFrom(sc, groups, vertex, hashOrder) ==
  IF vertex > Len(sc.g.v) THEN sc
  ELSE GroupScanFrom(
         GroupScanNames(sc, groups, vertex,
                        AfterGroupPluginOrder(sc.g.v,
                                              sc.g.v[vertex].afterGroupPlugins,
                                              hashOrder)),
         groups, vertex + 1, hashOrder)

\* The first loop of AddGroupEdges.
GroupScan(g, groups, hashOrder) ==
  GroupScanFrom([g |-> g, ignore |-> <<>>, pairs |-> <<>>], groups, 1, hashOrder)

\* The second loop adding every queued edge (a mutant).
RECURSIVE AddQueuedGroupEdges_All(_, _, _)
AddQueuedGroupEdges_All(g, pairs, ignoreMap) ==
  IF pairs = <<>> THEN g
  ELSE LET edgePair == Head(pairs)
       IN AddQueuedGroupEdges_All(AddEdge(g, edgePair[1], edgePair[2], "group"),
                                  Tail(pairs), ignoreMap)

\* The second loop adding the ignored edges instead of the others (a mutant).
RECURSIVE AddQueuedGroupEdges_Inverted(_, _, _)
AddQueuedGroupEdges_Inverted(g, pairs, ignoreMap) ==
  IF pairs = <<>> THEN g
  ELSE LET edgePair == Head(pairs)
           ignore == shouldIgnoreGroupEdge(g.v[edgePair[1]], g.v[edgePair[2]],
                                           ignoreMap)
       IN AddQueuedGroupEdges_Inverted(
            IF ignore THEN AddEdge(g, edgePair[1], edgePair[2], "group") ELSE g,
            Tail(pairs), ignoreMap)

\* The second loop of AddGroupEdges: the queued edges that are not ignored.
RECURSIVE AddQueuedGroupEdges(_, _, _)
AddQueuedGroupEdges(g, pairs, ignoreMap) ==
  IF pairs = <<>> THEN g
  ELSE LET edgePair == Head(pairs)
           ignore == shouldIgnoreGroupEdge(g.v[edgePair[1]], g.v[edgePair[2]],
                                           ignoreMap)
       IN AddQueuedGroupEdges(IF ~ignore
                              THEN AddEdge(g, edgePair[1], edgePair[2], "group")
                              ELSE g,
                              Tail(pairs), ignoreMap)

\* PluginSorter::AddGroupEdges: the graph state afterwards, with the ignore
\* map and the queued pairs its scan built.
AddGroupEdges(g, groups, hashOrder) ==
  LET sc == GroupScan(g, groups, hashOrder)
  IN [g      |-> AddQueuedGroupEdges(sc.g, sc.pairs, sc.ignore),
      ignore |-> sc.ignore,
      pairs  |-> sc.pairs]

-----------------------------------------------------------------------------
(* Phase 5: the overlap edges.                                             *)

NumOverrideFormIDs(plugin) == Cardinality(plugin.formIDs)

DoFormIDsOverlap(plugin, other) == plugin.formIDs \cap other.formIDs # {}

\* The inner loop of AddOverlapEdges without the comparison of the numbers
\* of override records for equality (a mutant).
RECURSIVE OverlapEdgesOf_EqualCounts(_, _, _)
OverlapEdgesOf_EqualCounts(g, vertex, otherVertex) ==
  IF otherVertex > Len(g.v) THEN g
  ELSE
    IF \/ vertex = otherVertex
       \/ HasEdge(g.e, vertex, otherVertex)
       \/ HasEdge(g.e, otherVertex, vertex)
       \/ ~DoFormIDsOverlap(g.v[vertex], g.v[otherVertex])
    THEN OverlapEdgesOf_EqualCounts(g, vertex, otherVertex + 1)
    ELSE
      LET bigger == NumOverrideFormIDs(g.v[vertex]) >
                    NumOverrideFormIDs(g.v[otherVertex])
          fromVertex == IF bigger THEN vertex ELSE otherVertex
          toVertex   == IF bigger THEN otherVertex ELSE vertex
          c  == EdgeCreatesCycle(g, fromVertex, toVertex)
          g1 == [g EXCEPT !.p = c.p]
      IN OverlapEdgesOf_EqualCounts(IF ~c.result
                                    THEN AddEdge(g1, fromVertex, toVertex, "overlap")
                                    ELSE g1,
                                    vertex, otherVertex + 1)

RECURSIVE OverlapEdgesOf(_, _, _)
OverlapEdgesOf(g, vertex, otherVertex) ==
  IF otherVertex > Len(g.v) THEN g
  ELSE
    IF \/ vertex = otherVertex
       \/ HasEdge(g.e, vertex, otherVertex)
       \/ HasEdge(g.e, otherVertex, vertex)
       \/ NumOverrideFormIDs(g.v[vertex]) = NumOverrideFormIDs(g.v[otherVertex])
       \/ ~DoFormIDsOverlap(g.v[vertex], g.v[otherVertex])
    THEN OverlapEdgesOf(g, vertex, otherVertex + 1)
    ELSE
      LET bigger == NumOverrideFormIDs(g.v[vertex]) >
                    NumOverrideFormIDs(g.v[otherVertex])
          fromVertex == IF bigger THEN vertex ELSE otherVertex
          toVertex   == IF bigger THEN otherVertex ELSE vertex
          c  == EdgeCreatesCycle(g, fromVertex, toVertex)
          g1 == [g EXCEPT !.p = c.p]
      IN OverlapEdgesOf(IF ~c.result
                        THEN AddEdge(g1, fromVertex, toVertex, "overlap")
                        ELSE g1,
                        vertex, otherVertex + 1)

RECURSIVE OverlapEdgesFrom(_, _)
OverlapEdgesFrom(g, vertex) ==
  IF vertex > Len(g.v) THEN g
  ELSE IF NumOverrideFormIDs(g.v[vertex]) = 0
       THEN OverlapEdgesFrom(g, vertex + 1)
       ELSE OverlapEdgesFrom(OverlapEdgesOf(g, vertex, vertex + 1), vertex + 1)

\* AddOverlapEdges without the call of EdgeCreatesCycle (a mutant).
RECURSIVE OverlapEdgesUnchecked(_, _, _)
OverlapEdgesUnchecked(g, vertex, otherVertex) ==
  IF vertex > Len(g.v) THEN g
  ELSE IF otherVertex > Len(g.v) THEN OverlapEdgesUnchecked(g, vertex + 1, vertex + 2)
  ELSE IF \/ NumOverrideFormIDs(g.v[vertex]) = 0
          \/ HasEdge(g.e, vertex, otherVertex)
          \/ HasEdge(g.e, otherVertex, vertex)
          \/ NumOverrideFormIDs(g.v[vertex]) = NumOverrideFormIDs(g.v[otherVertex])
          \/ ~DoFormIDsOverlap(g.v[vertex], g.v[otherVertex])
  THEN OverlapEdgesUnchecked(g, vertex, otherVertex + 1)
  ELSE LET bigger == NumOverrideFormIDs(g.v[vertex]) > NumOverrideFormIDs(g.v[otherVertex])
       IN OverlapEdgesUnchecked(AddEdge(g, IF bigger THEN vertex ELSE otherVertex,
                                        IF bigger THEN otherVertex ELSE vertex, "overlap"),
                                vertex, otherVertex + 1)

AddOverlapEdges_NoCycleCheck(g) == OverlapEdgesUnchecked(g, 1, 2)

\* PluginSorter::AddOverlapEdges.
AddOverlapEdges(g) == OverlapEdgesFrom(g, 1)

-----------------------------------------------------------------------------
(* Phase 6: the tie-break edges.                                           *)

\* ComparePlugins without the comparison of the extensions (a mutant).
ComparePlugins_BasenameOnly(plugin1, plugin2) ==
  IF HasValue(plugin1.loadOrderIndex) /\ ~HasValue(plugin2.loadOrderIndex)
  THEN -1
  ELSE IF ~HasValue(plugin1.loadOrderIndex) /\ HasValue(plugin2.loadOrderIndex)
  THEN 1
  ELSE IF HasValue(plugin1.loadOrderIndex) /\ HasValue(plugin2.loadOrderIndex)
  THEN (IF plugin1.loadOrderIndex < plugin2.loadOrderIndex THEN -1 ELSE 1)
  ELSE CompareFilenames(Substr(plugin1.name, 0, Len(plugin1.name) - 4),
                        Substr(plugin2.name, 0, Len(plugin2.name) - 4))

\* ComparePlugins: negative when plugin1 is to load before plugin2.
ComparePlugins(plugin1, plugin2) ==
  IF HasValue(plugin1.loadOrderIndex) /\ ~HasValue(plugin2.loadOrderIndex)
  THEN -1
  ELSE IF ~HasValue(plugin1.loadOrderIndex) /\ HasValue(plugin2.loadOrderIndex)
  THEN 1
  ELSE IF HasValue(plugin1.loadOrderIndex) /\ HasValue(plugin2.loadOrderIndex)
  THEN (IF plugin1.loadOrderIndex < plugin2.loadOrderIndex THEN -1 ELSE 1)
  ELSE
    LET name1 == plugin1.name
        name2 == plugin2.name
        basename1 == Substr(name1, 0, Len(name1) - 4)
        basename2 == Substr(name2, 0, Len(name2) - 4)
        result == CompareFilenames(basename1, basename2)
    IN IF result # 0 THEN result
       ELSE CompareFilenames(Substr(name1, Len(name1) - 4, 4),
                             Substr(name2, Len(name2) - 4, 4))

RECURSIVE TieBreakEdgesOf(_, _, _)
TieBreakEdgesOf(g, vertex, otherVertex) ==
  IF otherVertex > Len(g.v) THEN g
  ELSE
    LET first == ComparePlugins(g.v[vertex], g.v[otherVertex]) < 0
        fromVertex == IF first THEN vertex ELSE otherVertex
        toVertex   == IF first THEN otherVertex ELSE vertex
        c  == EdgeCreatesCycle(g, fromVertex, toVertex)
        g1 == [g EXCEPT !.p = c.p]
    IN TieBreakEdgesOf(IF ~c.result
                       THEN AddEdge(g1, fromVertex, toVertex, "tieBreak")
                       ELSE g1,
                       vertex, otherVertex + 1)

RECURSIVE TieBreakEdgesFrom(_, _)
TieBreakEdgesFrom(g, vertex) ==
  IF vertex > Len(g.v) THEN g
  ELSE TieBreakEdgesFrom(TieBreakEdgesOf(g, vertex, vertex + 1), vertex + 1)

\* AddTieBreakEdges with its outer loop starting at the second vertex (a
\* mutant).
AddTieBreakEdges_FromSecond(g) == TieBreakEdgesFrom(g, 2)

\* PluginSorter::AddTieBreakEdges.
AddTieBreakEdges(g) == TieBreakEdgesFrom(g, 1)

-----------------------------------------------------------------------------
(* The cycle check and the topological sort: boost's depth-first search    *)
(* over the vertices in vertex order and each vertex's out-edges in the    *)
(* order they were added.                                                  *)
(* st = [color |-> per vertex, finished |-> the vertices in the order they *)
(* were finished, back |-> whether a back edge was met].                   *)

RECURSIVE DfsVisit(_, _, _)
RECURSIVE DfsChildren(_, _, _)
DfsChildren(E, adj, st) ==
  IF adj = <<>> THEN st
  ELSE LET a == Head(adj) IN
       DfsChildren(E, Tail(adj),
                   IF st.color[a] = "white" THEN DfsVisit(E, a, st)
                   ELSE IF st.color[a] = "gray" THEN [st EXCEPT !.back = TRUE]
                   ELSE st)

DfsVisit(E, u, st) ==
  LET st1 == DfsChildren(E, AdjacentVertices(E, u),
                         [st EXCEPT !.color[u] = "gray"])
  IN [st1 EXCEPT !.color[u] = "black", !.finished = Append(@, u)]

RECURSIVE DfsFrom(_, _, _)
DfsFrom(g, u, st) ==
  IF u > Len(g.v) THEN st
  ELSE DfsFrom(g, u + 1,
               IF st.color[u] = "white" THEN DfsVisit(g.e, u, st) ELSE st)

DepthFirstSearch(g) ==
  DfsFrom(g, 1, [color    |-> [u \in 1..Len(g.v) |-> "white"],
                 finished |-> <<>>,
                 back     |-> FALSE])

\* PluginSorter::CheckForCycles: whether CycleDetector meets a back edge and
\* throws CyclicInteractionError.
CheckForCycles(g) == DepthFirstSearch(g).back

\* The topological sort with a back inserter: the finishing order (a mutant).
TopologicalSort_BackInserter(g) ==
  LET sortedVertices == DepthFirstSearch(g).finished
  IN [i \in 1..Len(sortedVertices) |-> g.v[sortedVertices[i]].name]

\* boost::topological_sort with a front inserter, and the names of the sorted
\* vertices.
TopologicalSort(g) ==
  LET sortedVertices == Reverse(DepthFirstSearch(g).finished)
  IN [i \in 1..Len(sortedVertices) |-> g.v[sortedVertices[i]].name]

-----------------------------------------------------------------------------
(* PluginSorter::Sort as a function of the game snapshot, of the order in  *)
(* which the cache's set enumerates the plugins and of the iteration order *)
(* of the unordered sets: [output, error].                                 *)

EmptyGraph(V) == [v |-> V, e |-> <<>>, p |-> {}]

BuildGraph(gm, V, hashOrder) ==
  LET g2 == AddSpecificEdges(EmptyGraph(V))
      g3 == AddHardcodedPluginEdges(g2, gm)
      g4 == AddGroupEdges(g3,
                          GetGroups(gm.masterlistGroups, gm.userGroups, TRUE),
                          hashOrder).g
      g5 == AddOverlapEdges(g4)
  IN AddTieBreakEdges(g5)

Sort(gm, order, hashOrder) ==
  LET r == AddPluginVertices(gm, order) IN
  IF r.err # "" THEN [output |-> <<>>, error |-> r.err]
  ELSE IF Len(r.v) = 0 THEN [output |-> <<>>, error |-> ""]
  ELSE LET g == BuildGraph(gm, r.v, hashOrder)
       IN IF CheckForCycles(g)
          THEN [output |-> <<>>, error |-> "CyclicInteractionError"]
          ELSE [output |-> TopologicalSort(g), error |-> ""]

-----------------------------------------------------------------------------
(* The game snapshots a run starts from.                                   *)

FileKinds == {"masters", "masterlistRequirements", "userRequirements",
              "masterlistLoadAfter", "userLoadAfter"}

\* A cached plugin without metadata.
Plugin(name, isMaster) ==
  [name                   |-> name,
   isMaster               |-> isMaster,
   masters                |-> <<>>,
   masterlistRequirements |-> <<>>,
   userRequirements       |-> <<>>,
   masterlistLoadAfter    |-> <<>>,
   userLoadAfter          |-> <<>>,
   group                  |-> DefaultGroup,
   formIDs                |-> {}]

\* The plugins whose header carries the master flag.
MasterFiles == {A_esm, b_esm, Update_esm}

Game(plugins, masterlistGroups, userGroups, loadOrder, implicitlyActivePlugins, gameType, hasLogger, files) ==
  [plugins                 |-> plugins,
   masterlistGroups        |-> masterlistGroups,
   userGroups              |-> userGroups,
   loadOrder               |-> loadOrder,
   implicitlyActivePlugins |-> implicitlyActivePlugins,
   gameType                |-> gameType,
   hasLogger               |-> hasLogger,
   files                   |-> files]

\* The subsets of `names` the cache can hold.
LoadedSets(names) == {L \in SUBSET names : Cardinality(L) <= MaxPlugins}

\* A declaration: plugin `of` names the files `refs` in its list `kind`.
\* The declaration of the plugin <<>> is no declaration.
Declare(plugin, d) ==
  IF d.of = plugin.name THEN [plugin EXCEPT ![d.kind] = d.refs] ELSE plugin

NoDeclaration == [of |-> <<>>, kind |-> "masters", refs |-> <<>>]

Declarations(L, kinds, refs) ==
  {[of |-> n, kind |-> k, refs |-> <<r>>] : n \in L, k \in kinds, r \in refs}

\* Games whose plugins carry masters, requirements and load-after files.
SpecificNames == {A_esm, b_esp, c_esp, d_esp}
SpecificRefs  == {A_esm, b_esp, c_esp, D_ESP, x_esp}

\* Games whose plugins carry masters, requirements and load-after files.
SpecificGame ==
  \E L \in LoadedSets(SpecificNames) :
    \E d \in Declarations(L, FileKinds, SpecificRefs) \cup {NoDeclaration} :
      game = Game({Declare(Plugin(n, n \in MasterFiles), d) : n \in L},
                  {}, {}, <<>>, <<>>, "tes4", FALSE, L)

\* The files of the data directory when the plugins `ghosted` are on disk
\* with ".ghost" appended and the plugins `absent` are not on disk at all.
DataFiles(L, ghosted, absent) ==
  (L \ (ghosted \cup absent)) \cup {n \o dot_ghost : n \in ghosted}

\* The plugins are on disk under their names, but for at most one of `names`,
\* which is ghosted or absent.
DiskStates(L, names) ==
  {DataFiles(L, {}, {})}
    \cup {DataFiles(L, {n}, {}) : n \in L \cap names}
    \cup {DataFiles(L, {}, {n}) : n \in L \cap names}

\* Games with implicitly active plugins.
HardcodedNames == {A_esm, b_esm, b_esp, Update_esm}

ImplicitlyActiveLists ==
  {<<>>, <<A_esm>>, <<Update_esm>>, <<A_esm, Update_esm>>,
   <<x_esp, Update_esm, A_esm>>, <<b_esp>>}

HardcodedGame ==
  \E L \in LoadedSets(HardcodedNames) :
    \E implicit \in ImplicitlyActiveLists, gameType \in {"tes4", "tes5"},
       hasLogger \in BOOLEAN, files \in DiskStates(L, {A_esm, Update_esm}) :
      game = Game({Plugin(n, n \in MasterFiles) : n \in L},
                  {}, {}, <<>>, implicit, gameType, hasLogger, files)

\* Games with groups: the groups of the masterlist and of the userlist.
GroupDocuments ==
  { \* default <- mid <- late
    <<{Group("mid", {DefaultGroup}), Group("late", {"mid"})}, {}>>,
    \* late <- mid <- default
    <<{Group("late", {}), Group("mid", {"late"}),
       Group(DefaultGroup, {"mid"})}, {}>>,
    \* default <- mid <- late and default <- late, the userlist adding
    \* after-groups
    <<{Group("mid", {}), Group("late", {DefaultGroup})},
      {Group("mid", {DefaultGroup}), Group("late", {"mid"})}>>,
    \* default <- early <- late and default <- mid <- late
    <<{Group("early", {DefaultGroup}), Group("mid", {DefaultGroup}),
       Group("late", {"early", "mid"})}, {}>>,
    \* an after-group that is not defined
    <<{Group("mid", {"early"})}, {}>>,
    \* a group that is not defined (late)
    <<{Group("mid", {DefaultGroup})}, {}>>,
    \* a cycle of after-groups
    <<{Group("mid", {"late"}), Group("late", {"mid"})}, {}>>,
    \* a cycle of after-groups and a group that is not defined (late)
    <<{Group("mid", {DefaultGroup}), Group(DefaultGroup, {"mid"})}, {}>>,
    \* mid <- default <- late
    <<{Group("mid", {}), Group(DefaultGroup, {"mid"}),
       Group("late", {DefaultGroup})}, {}>> }

GroupNamesUsed == {DefaultGroup, "mid", "late"}

GroupedNames == {{A_esm, b_esp, c_esp}, {b_esp, c_esp, d_esp}}

GroupGame ==
  \E L \in UNION {LoadedSets(names) : names \in GroupedNames} :
    \E grp \in [L -> GroupNamesUsed], docs \in GroupDocuments,
       d \in {x \in Declarations(L, {"masterlistLoadAfter"}, L) :
                x.refs # <<x.of>>} \cup {NoDeclaration} :
      game = Game({[Declare(Plugin(n, n \in MasterFiles), d)
                      EXCEPT !.group = grp[n]] : n \in L},
                  docs[1], docs[2], <<>>, <<>>, "tes4", FALSE, L)

\* Games whose plugins override records and have load order positions.
OverlapNames == {b_esm, b_esp, c_esp}

FormIDSets == {{}, {1}, {1, 2}}

LoadOrders == {<<>>, <<c_esp, b_esp, b_esm>>, <<c_esp>>}

OverlapGame ==
  \E L \in LoadedSets(OverlapNames) :
    \E ids \in [L -> FormIDSets], loadOrder \in LoadOrders,
       d \in {x \in Declarations(L, {"userRequirements"}, L) :
                x.refs # <<x.of>>} \cup {NoDeclaration} :
      game = Game({[Declare(Plugin(n, n \in MasterFiles), d)
                      EXCEPT !.formIDs = ids[n]] : n \in L},
                  {}, {}, loadOrder, <<>>, "tes4", FALSE, L)

\* Games of three plugins without a master flag, whose override records
\* overlap and differ in number, so that an overlap edge and a requirement
\* can make a path between two plugins that no edge joins.
ChainNames == {b_esp, c_esp, d_esp}

ChainFormIDSets == {{1}, {1, 2}, {1, 2, 3}}

OverlapChainGame ==
  \E ids \in [ChainNames -> ChainFormIDSets],
     d \in {x \in Declarations(ChainNames, {"userRequirements"}, ChainNames) :
              x.refs # <<x.of>>} \cup {NoDeclaration} :
    game = Game({[Declare(Plugin(n, FALSE), d)
                    EXCEPT !.formIDs = ids[n]] : n \in ChainNames},
                {}, {}, <<>>, <<>>, "tes4", FALSE, ChainNames)

\* Games whose plugins nothing orders but the tie-break: no metadata, one
\* master flag for all, names that differ in case and in extension only.
TieBreakNames == {b_esm, b_esp, c_esp, D_ESP}

TieBreakLoadOrders == {<<>>, <<D_ESP>>, <<c_esp, b_esp>>, <<x_esp, b_esp, b_esm>>}

TieBreakGame ==
  \E L \in LoadedSets(TieBreakNames) :
    \E isMaster \in BOOLEAN, loadOrder \in TieBreakLoadOrders :
      game = Game({Plugin(n, isMaster) : n \in L},
                  {}, {}, loadOrder, <<>>, "tes4", FALSE, L)

-----------------------------------------------------------------------------
(* The state machine: one call of Sort.                                    *)

\* Sort is called: nothing is in the graph.
SortCalled ==
  /\ pc = "start"
  /\ vertices = <<>>
  /\ edges = <<>>
  /\ pathsCache = {}
  /\ groupPluginsToIgnore = <<>>
  /\ acyclicEdgePairs = <<>>
  /\ output = <<>>
  /\ error = ""
  /\ errorGroup = ""

\* No call of Sort.
SortIdle ==
  /\ game = Idle
  /\ pc = "idle"
  /\ vertices = <<>>
  /\ edges = <<>>
  /\ pathsCache = {}
  /\ groupPluginsToIgnore = <<>>
  /\ acyclicEdgePairs = <<>>
  /\ output = <<>>
  /\ error = ""
  /\ errorGroup = ""

\* No evaluator.
EvaluatorIdle == evaluator = Idle /\ dataFiles = {}

\* No call of the ApiDatabase is modelled, and no call of AddEdge or
\* EdgeCreatesCycle is looked at.
DatabaseIdle == database = Idle /\ probe = Idle

\* No call of the cache.
CacheIdle == cache = Idle /\ threads = Idle /\ history = Idle

Init ==
  /\ (SpecificGame \/ HardcodedGame \/ GroupGame \/ OverlapGame
        \/ OverlapChainGame \/ TieBreakGame)
  /\ SortCalled
  /\ resolver = Idle
  /\ CacheIdle
  /\ EvaluatorIdle
  /\ DatabaseIdle

graph == [v |-> vertices, e |-> edges, p |-> pathsCache]

SetGraph(g) ==
  /\ vertices' = g.v
  /\ edges' = g.e
  /\ pathsCache' = g.p

\* Sort that leaves the paths cache as it is (a mutant).
ClearGraph_KeepPathsCache(g) == [v |-> <<>>, e |-> <<>>, p |-> g.p]

\* Sort, lines 84-86: graph_.clear() and pathsCache_.clear(); the index map
\* is rebuilt from the vertices and has no state of its own here.
ClearGraph(g) == [v |-> <<>>, e |-> <<>>, p |-> {}]

\* Sort, lines 80-93: the graph is cleared, the vertices are added, and an
\* empty list is returned when there is none.
SortAddPluginVertices ==
  /\ pc = "start"
  /\ \E order \in Enumerations(game.plugins) :
       LET r == AddPluginVertices(game, order)
           cleared == ClearGraph(graph)
       IN
       /\ vertices' = cleared.v \o r.v
       /\ edges' = cleared.e
       /\ pathsCache' = cleared.p
       /\ error' = r.err
       /\ errorGroup' \in (IF r.named = {} THEN {""} ELSE r.named)
       /\ pc' = IF r.err # "" THEN "threw"
                ELSE IF Len(r.v) = 0 THEN "returned"
                ELSE "vertices"
  /\ UNCHANGED <<game, groupPluginsToIgnore, acyclicEdgePairs, output>>
  /\ UNCHANGED nonSortVars

SortAddSpecificEdges ==
  /\ pc = "vertices"
  /\ SetGraph(AddSpecificEdges(graph))
  /\ pc' = "specific"
  /\ UNCHANGED <<game, groupPluginsToIgnore, acyclicEdgePairs, output, error>>
  /\ UNCHANGED <<errorGroup, nonSortVars>>

SortAddHardcodedPluginEdges ==
  /\ pc = "specific"
  /\ SetGraph(AddHardcodedPluginEdges(graph, game))
  /\ pc' = "hardcoded"
  /\ UNCHANGED <<game, groupPluginsToIgnore, acyclicEdgePairs, output, error>>
  /\ UNCHANGED <<errorGroup, nonSortVars>>

SortAddGroupEdges ==
  /\ pc = "hardcoded"
  /\ \E hashOrder \in {"ascending", "descending"} :
       LET r == AddGroupEdges(graph,
                              GetGroups(game.masterlistGroups, game.userGroups,
                                        TRUE),
                              hashOrder)
       IN /\ SetGraph(r.g)
          /\ groupPluginsToIgnore' = r.ignore
          /\ acyclicEdgePairs' = r.pairs
  /\ pc' = "group"
  /\ UNCHANGED <<game, output, error>>
  /\ UNCHANGED <<errorGroup, nonSortVars>>

SortAddOverlapEdges ==
  /\ pc = "group"
  /\ SetGraph(AddOverlapEdges(graph))
  /\ pc' = "overlap"
  /\ UNCHANGED <<game, groupPluginsToIgnore, acyclicEdgePairs, output, error>>
  /\ UNCHANGED <<errorGroup, nonSortVars>>

SortAddTieBreakEdges ==
  /\ pc = "overlap"
  /\ SetGraph(AddTieBreakEdges(graph))
  /\ pc' = "tieBreak"
  /\ UNCHANGED <<game, groupPluginsToIgnore, acyclicEdgePairs, output, error>>
  /\ UNCHANGED <<errorGroup, nonSortVars>>

\* Sort, lines 109-147: the cycle check throws or the sorted names are
\* returned.
SortFinish ==
  /\ pc = "tieBreak"
  /\ IF CheckForCycles(graph)
     THEN /\ pc' = "threw"
          /\ error' = "CyclicInteractionError"
          /\ output' = output
     ELSE /\ pc' = "returned"
          /\ error' = error
          /\ output' = TopologicalSort(graph)
  /\ UNCHANGED <<game, vertices, edges, pathsCache, groupPluginsToIgnore,
                 acyclicEdgePairs>>
  /\ UNCHANGED <<errorGroup, nonSortVars>>

Next ==
  \/ SortAddPluginVertices
  \/ SortAddSpecificEdges
  \/ SortAddHardcodedPluginEdges
  \/ SortAddGroupEdges
  \/ SortAddOverlapEdges
  \/ SortAddTieBreakEdges
  \/ SortFinish

Spec == Init /\ [][Next]_vars

-----------------------------------------------------------------------------
(* The state machine of the groups: a call of GetTransitiveAfterGroups on  *)
(* a set of groups, and the calls of Sort on games with groups.            *)

\* The names of the groups, and the names an after-group can have: those
\* and a name no group has.
GroupLabels == {"a", "b", "c"}

AfterLabels == GroupLabels \cup {"d"}

\* The sets of groups: any of the names, each after at most two names.
AfterSets == {A \in SUBSET AfterLabels : Cardinality(A) <= 2}

GroupSets ==
  UNION {{{Group(n, after[n]) : n \in S} : after \in [S -> AfterSets]} :
         S \in SUBSET GroupLabels}

\* The orders in which the unordered sets can iterate the names.
IterationOrders ==
  {o \in [1..Cardinality(AfterLabels) -> AfterLabels] :
     \A i, j \in 1..Cardinality(AfterLabels) : i # j => o[i] # o[j]}

InitGroups ==
  /\ CacheIdle
  /\ EvaluatorIdle
  /\ DatabaseIdle
  /\ \/ /\ GroupGame
        /\ SortCalled
        /\ resolver = Idle
     \/ /\ SortIdle
        /\ \E groups \in GroupSets :
             resolver = [pc |-> "called", groups |-> groups, result |-> Idle]

\* GetTransitiveAfterGroups returns or throws.
ResolveGroups ==
  /\ resolver.pc = "called"
  /\ \E order \in IterationOrders, first \in {"undefined", "cycle"} :
       resolver' = [resolver EXCEPT
                      !.pc = "done",
                      !.result = TransitiveAfterGroups(resolver.groups, order,
                                                       first)]
  /\ UNCHANGED <<sortVars, cacheVars, evalVars, dbVars, probe>>

\* getGroupsInPaths on the groups that GetTransitiveAfterGroups accepted
\* (every after-group defined, no cycle), as AddGroupEdges calls it.
CallGetGroupsInPaths(firstGroupName, lastGroupName) ==
  /\ resolver.pc = "done"
  /\ resolver.result.err = ""
  /\ probe = Idle
  /\ {firstGroupName, lastGroupName} \subseteq GroupNames(resolver.groups)
  /\ probe' = [pc |-> "getGroupsInPaths", from |-> firstGroupName,
               to |-> lastGroupName,
               result |-> getGroupsInPaths(resolver.groups, firstGroupName,
                                           lastGroupName)]
  /\ UNCHANGED <<sortVars, resolver, cacheVars, evalVars, dbVars>>

NextGroups ==
  \/ SortAddPluginVertices
  \/ SortAddSpecificEdges
  \/ SortAddHardcodedPluginEdges
  \/ SortAddGroupEdges
  \/ SortAddOverlapEdges
  \/ SortAddTieBreakEdges
  \/ SortFinish
  \/ ResolveGroups
  \/ \E firstGroupName, lastGroupName \in GroupLabels :
       CallGetGroupsInPaths(firstGroupName, lastGroupName)

SpecGroups == InitGroups /\ [][NextGroups]_vars

-----------------------------------------------------------------------------
(* GameCache: the four maps, the mutex, and the member functions.          *)

\* An empty std::map, std::unordered_map or std::set of pairs.
EmptyMap == [k \in {} |-> 0]

\* map.insert(pair(key, value)): an existing key keeps its value.
MapInsert(m, key, value) == IF key \in DOMAIN m THEN m ELSE m @@ (key :> value)

\* map.erase(it) for the entry under key.
MapErase(m, key) == [k \in DOMAIN m \ {key} |-> m[k]]

\* No thread holds mutex_.
NoThread == 0

\* GameCache::GameCache(): empty maps, a free mutex.
NewCache == [plugins |-> EmptyMap, conditions |-> EmptyMap, crcs |-> EmptyMap, archivePaths |-> {}, mutex |-> NoThread]

\* A loaded Plugin, as far as the cache is concerned: its name, and its CRC
\* to tell two loads of one file apart.
PluginObject(name, crc) == [name |-> name, crc |-> crc]

\* std::shared_ptr<const Plugin>(nullptr).
NullPlugin == PluginObject(<<>>, 0)

\* GameCache::GameCache(const GameCache&): conditions_ and plugins_ are
\* copied, crcs_ and archivePaths_ start empty, the mutex is new.
CopyCache(c) == [NewCache EXCEPT !.conditions = c.conditions, !.plugins = c.plugins]

\* GameCache::operator= (the other cache is never this one): conditions_
\* and plugins_ are replaced.
AssignCache(c, other) == [c EXCEPT !.conditions = other.conditions, !.plugins = other.plugins]

CacheCondition_Overwrite(c, condition, result) == [c EXCEPT !.conditions = [k \in DOMAIN @ \cup {condition} |-> IF k = condition THEN result ELSE @[k]]]

CacheCondition(c, condition, result) == [c EXCEPT !.conditions = MapInsert(@, condition, result)]

GetCachedCondition(c, condition) ==
  IF condition \in DOMAIN c.conditions
    THEN <<c.conditions[condition], TRUE>>
    ELSE <<FALSE, FALSE>>

GetCachedCrc(c, file) ==
  IF ToLower(file) \in DOMAIN c.crcs THEN c.crcs[ToLower(file)] ELSE 0

CacheCrc(c, file, crc) == [c EXCEPT !.crcs = MapInsert(@, ToLower(file), crc)]

GetPlugins(c) == {c.plugins[k] : k \in DOMAIN c.plugins}

GetPlugin(c, pluginName) ==
  IF ToLower(pluginName) \in DOMAIN c.plugins
    THEN c.plugins[ToLower(pluginName)]
    ELSE NullPlugin

AddPlugin_ExactName(c, plugin) == [c EXCEPT !.plugins = MapErase(@, plugin.name) @@ (plugin.name :> plugin)]

AddPlugin(c, plugin) ==
  LET lowercasedName == ToLower(plugin.name)
      erased == IF lowercasedName \in DOMAIN c.plugins
                  THEN MapErase(c.plugins, lowercasedName)
                  ELSE c.plugins
  IN [c EXCEPT !.plugins = erased @@ (lowercasedName :> plugin)]

GetArchivePaths(c) == c.archivePaths

CacheArchivePath(c, path) == [c EXCEPT !.archivePaths = @ \cup {path}]

ClearCachedConditions_KeepCrcs(c) == [c EXCEPT !.conditions = EmptyMap]

ClearCachedConditions(c) == [c EXCEPT !.conditions = EmptyMap, !.crcs = EmptyMap]

ClearCachedPlugins(c) == [c EXCEPT !.plugins = EmptyMap]

ClearCachedArchivePaths(c) == [c EXCEPT !.archivePaths = {}]

-----------------------------------------------------------------------------
(* Calls of the cache by concurrent threads.                               *)

\* Condition strings: "c" and "C".
cond_c == <<99>>

cond_C == <<67>>

\* Files with a CRC: "f" and "F", one file on a case-insensitive filesystem.
file_f == <<102>>

file_F == <<70>>

\* An archive path: "a".
path_a == <<97>>

\* The cache that operator= assigns from: CacheCondition("c", false) and
\* AddPlugin(b.esp) have been called on it.
OtherCache == AddPlugin(CacheCondition(NewCache, cond_c, FALSE), PluginObject(b_esp, 2))

\* A call: the member function and its arguments (those it does not take
\* are <<>>, FALSE and 0).
Op(name, key, result, crc) == [name |-> name, key |-> key, result |-> result, crc |-> crc]

NoOp == Op("none", <<>>, FALSE, 0)

\* The member functions that open with lock_guard<mutex> guard(mutex_).
LockingOps == {"CacheCondition", "GetCachedCondition", "GetCachedCrc", "CacheCrc", "AddPlugin", "CacheArchivePath", "ClearCachedConditions", "ClearCachedPlugins", "ClearCachedArchivePaths"}

\* The maps a member function reads.
MapsRead(name) ==
  CASE name \in {"CacheCondition", "GetCachedCondition"} -> {"conditions"}
    [] name \in {"GetCachedCrc", "CacheCrc"} -> {"crcs"}
    [] name \in {"GetPlugins", "GetPlugin", "AddPlugin"} -> {"plugins"}
    [] name \in {"GetArchivePaths", "CacheArchivePath"} -> {"archivePaths"}
    [] name = "copy" -> {"conditions", "plugins"}
    [] OTHER -> {}

\* The maps a member function writes.
MapsWritten(name) ==
  CASE name = "CacheCondition" -> {"conditions"}
    [] name = "CacheCrc" -> {"crcs"}
    [] name = "AddPlugin" -> {"plugins"}
    [] name = "CacheArchivePath" -> {"archivePaths"}
    [] name = "ClearCachedConditions" -> {"conditions", "crcs"}
    [] name = "ClearCachedPlugins" -> {"plugins"}
    [] name = "ClearCachedArchivePaths" -> {"archivePaths"}
    [] name = "operator=" -> {"conditions", "plugins"}
    [] OTHER -> {}

\* The cache after the call.
Effect(c, op) ==
  CASE op.name = "CacheCondition" -> CacheCondition(c, op.key, op.result)
    [] op.name = "CacheCrc" -> CacheCrc(c, op.key, op.crc)
    [] op.name = "AddPlugin" -> AddPlugin(c, PluginObject(op.key, op.crc))
    [] op.name = "CacheArchivePath" -> CacheArchivePath(c, op.key)
    [] op.name = "ClearCachedConditions" -> ClearCachedConditions(c)
    [] op.name = "ClearCachedPlugins" -> ClearCachedPlugins(c)
    [] op.name = "ClearCachedArchivePaths" -> ClearCachedArchivePaths(c)
    [] op.name = "operator=" -> AssignCache(c, OtherCache)
    [] OTHER -> c

\* What the call returns ("void" for a function that returns nothing).
Returns(c, op) ==
  CASE op.name = "GetCachedCondition" -> GetCachedCondition(c, op.key)
    [] op.name = "GetCachedCrc" -> GetCachedCrc(c, op.key)
    [] op.name = "GetPlugins" -> GetPlugins(c)
    [] op.name = "GetPlugin" -> GetPlugin(c, op.key)
    [] op.name = "GetArchivePaths" -> GetArchivePaths(c)
    [] op.name = "copy" -> CopyCache(c)
    [] OTHER -> "void"

\* The calls the threads make.
CacheOps ==
  {Op("CacheCondition", c, r, 0) : c \in {cond_c, cond_C}, r \in BOOLEAN}
    \cup {Op("GetCachedCondition", c, FALSE, 0) : c \in {cond_c, cond_C}}
    \cup {Op("CacheCrc", file_f, FALSE, 1), Op("CacheCrc", file_F, FALSE, 2)}
    \cup {Op("GetCachedCrc", f, FALSE, 0) : f \in {file_f, file_F}}
    \cup {Op("AddPlugin", d_esp, FALSE, 1), Op("AddPlugin", D_ESP, FALSE, 2), Op("AddPlugin", b_esp, FALSE, 1)}
    \cup {Op("GetPlugin", n, FALSE, 0) : n \in {d_esp, D_ESP, b_esp}}
    \cup {Op("CacheArchivePath", path_a, FALSE, 0)}
    \cup {Op(name, <<>>, FALSE, 0) : name \in {"GetPlugins", "GetArchivePaths", "copy", "operator=", "ClearCachedConditions", "ClearCachedPlugins", "ClearCachedArchivePaths"}}

\* The threads that share the cache.
CacheThreads == {1, 2}

\* A thread touches the maps between the first and the last statement of
\* the member function's body.
Accessing(t) == threads[t].pc = "access"

\* Two calls of which one writes a map that the other reads or writes.
Conflict(op1, op2) ==
  \/ MapsWritten(op1.name) \cap (MapsRead(op2.name) \cup MapsWritten(op2.name)) # {}
  \/ MapsWritten(op2.name) \cap MapsRead(op1.name) # {}

\* The CacheCondition calls since the last ClearCachedConditions, oldest
\* first, of the cache that operator= assigns from.
OtherConditionLog == <<<<cond_c, FALSE>>>>

\* The record of the condition calls after the call op returned.
ConditionLogAfter(log, op) ==
  CASE op.name = "CacheCondition" -> Append(log, <<op.key, op.result>>)
    [] op.name = "ClearCachedConditions" -> <<>>
    [] op.name = "operator=" -> OtherConditionLog
    [] OTHER -> log

\* A cache in use: AddPlugin(b.esp) and CacheArchivePath("a") have been
\* called on it.
LoadedCache == CacheArchivePath(AddPlugin(NewCache, PluginObject(b_esp, 1)), path_a)

CacheCalled ==
  /\ cache \in {NewCache, LoadedCache}
  /\ threads = [t \in CacheThreads |-> [pc |-> "idle", op |-> NoOp, ret |-> "void"]]
  /\ history = [calls |-> 0, raced |-> FALSE, conditionLog |-> <<>>, cleared |-> 0, replaced |-> FALSE]

InitCache == SortIdle /\ resolver = Idle /\ CacheCalled /\ EvaluatorIdle /\ DatabaseIdle

\* A thread calls a member function.
CacheCall(t, op) ==
  /\ threads[t].pc = "idle"
  /\ history.calls < MaxCalls
  /\ threads' = [threads EXCEPT ![t] = [pc |-> IF op.name \in LockingOps THEN "lock" ELSE "access", op |-> op, ret |-> "void"]]
  /\ history' = [history EXCEPT !.calls = @ + 1, !.raced = @ \/ (op.name \notin LockingOps /\ \E u \in CacheThreads \ {t} : Accessing(u) /\ Conflict(op, threads[u].op))]
  /\ UNCHANGED <<cache, sortVars, resolver, evalVars, dbVars, probe>>

\* lock_guard<mutex> guard(mutex_): the thread waits until the mutex is free.
CacheLock(t) ==
  /\ threads[t].pc = "lock"
  /\ cache.mutex = NoThread
  /\ cache' = [cache EXCEPT !.mutex = t]
  /\ threads' = [threads EXCEPT ![t].pc = "access"]
  /\ history' = [history EXCEPT !.raced = @ \/ \E u \in CacheThreads \ {t} : Accessing(u) /\ Conflict(threads[t].op, threads[u].op)]
  /\ UNCHANGED <<sortVars, resolver, evalVars, dbVars, probe>>

\* The body of the member function runs and returns; the guard's destructor
\* releases the mutex.
CacheReturn(t) ==
  LET op == threads[t].op
      after == Effect(cache, op)
  IN /\ threads[t].pc = "access"
     /\ cache' = [after EXCEPT !.mutex = IF cache.mutex = t THEN NoThread ELSE @]
     /\ threads' = [threads EXCEPT ![t] = [pc |-> "idle", op |-> op, ret |-> Returns(cache, op)]]
     /\ history' = [history EXCEPT
          !.conditionLog = ConditionLogAfter(@, op),
          !.cleared = IF op.name = "ClearCachedConditions" THEN Cardinality(DOMAIN cache.conditions) + Cardinality(DOMAIN cache.crcs) ELSE @,
          !.replaced = IF op.name = "AddPlugin" THEN ToLower(op.key) \in DOMAIN cache.plugins ELSE @]
     /\ UNCHANGED <<sortVars, resolver, evalVars, dbVars, probe>>

NextCache ==
  \/ \E t \in CacheThreads : \E op \in CacheOps : CacheCall(t, op)
  \/ \E t \in CacheThreads : CacheLock(t)
  \/ \E t \in CacheThreads : CacheReturn(t)

SpecCache == InitCache /\ [][NextCache]_vars

-----------------------------------------------------------------------------
(* ConditionEvaluator: paths, predicates, the parser and evaluate.         *)

dot == <<46>>                                                  \* "."

dotdot == <<46, 46>>                                           \* ".."

LOOT == <<76, 79, 79, 84>>                                     \* "LOOT"

\* The components of a path string, as iterating a std::filesystem::path
\* gives them: the pieces between the "/" characters (empty pieces dropped).
RECURSIVE PathComponents(_, _)
PathComponents(str, piece) ==
  IF str = <<>> THEN (IF piece = <<>> THEN <<>> ELSE <<piece>>)
  ELSE IF Head(str) = 47
    THEN (IF piece = <<>> THEN <<>> ELSE <<piece>>) \o PathComponents(Tail(str), <<>>)
  ELSE PathComponents(Tail(str), Append(piece, Head(str)))

\* The loop of validatePath with "." appended to temp like any other
\* component (a mutant).
RECURSIVE ValidatePathFrom_KeepDot(_, _, _)
ValidatePathFrom_KeepDot(components, i, filename) ==
  IF i > Len(components) THEN FALSE
  ELSE IF components[i] = dotdot /\ filename = dotdot THEN TRUE
  ELSE ValidatePathFrom_KeepDot(components, i + 1, components[i])

\* The loop of validatePath from component i on; filename is
\* temp.filename(). TRUE when ConditionSyntaxError is thrown.
RECURSIVE ValidatePathFrom(_, _, _)
ValidatePathFrom(components, i, filename) ==
  IF i > Len(components) THEN FALSE
  ELSE IF components[i] = dot THEN ValidatePathFrom(components, i + 1, filename)
  ELSE IF components[i] = dotdot /\ filename = dotdot THEN TRUE
  ELSE ValidatePathFrom(components, i + 1, components[i])

\* validatePath that only looks at the first two components (a mutant).
validatePath_LeadingOnly(path) ==
  LET components == PathComponents(path, <<>>)
  IN Len(components) >= 2 /\ components[1] = dotdot /\ components[2] = dotdot

\* ConditionEvaluator::validatePath: TRUE when it throws
\* ConditionSyntaxError.
validatePath(path) == ValidatePathFrom(PathComponents(path, <<>>), 1, <<>>)

\* The path string with these components.
RECURSIVE JoinPath(_)
JoinPath(components) ==
  IF components = <<>> THEN <<>>
  ELSE IF Len(components) = 1 THEN components[1]
  ELSE components[1] \o <<47>> \o JoinPath(Tail(components))

\* The components of the location that the filesystem resolves a path to:
\* "." stays in place and ".." goes to the parent.
RECURSIVE ResolveComponents(_, _)
ResolveComponents(components, resolved) ==
  IF components = <<>> THEN resolved
  ELSE IF Head(components) = dot THEN ResolveComponents(Tail(components), resolved)
  ELSE IF Head(components) = dotdot /\ resolved # <<>> /\ resolved[Len(resolved)] # dotdot
    THEN ResolveComponents(Tail(components), SubSeq(resolved, 1, Len(resolved) - 1))
  ELSE ResolveComponents(Tail(components), Append(resolved, Head(components)))

\* std::filesystem::exists(dataPath_ / u8path(file)); files are the files
\* in the data directory, and nothing exists above it.
ExistsInDataPath(files, file) ==
  JoinPath(ResolveComponents(PathComponents(file, <<>>), <<>>)) \in files

\* hasPluginFileExtension: the name ends in ".esp" or ".esm", in any case.
hasPluginFileExtension(file) ==
  /\ Len(file) >= 4
  /\ ToLower(SubSeq(file, Len(file) - 3, Len(file))) \in {<<46, 101, 115, 112>>, <<46, 101, 115, 109>>}

\* An evaluator: whether it was given a GameCache and a LoadOrderHandler.
ConditionEvaluator(gameCache, loadOrderHandler) == [gameCache |-> gameCache, loadOrderHandler |-> loadOrderHandler]

shouldParseOnly(ev) == ~ev.gameCache \/ ~ev.loadOrderHandler

\* What a predicate function or the parser gives: whether it threw
\* ConditionSyntaxError, its value, and what it called (GameCache functions,
\* "filesystem").
Outcome(threw, value, calls) == [threw |-> threw, value |-> value, calls |-> calls]

\* ConditionEvaluator::fileExists; files are the files in the data
\* directory.
fileExists(ev, c, files, filePath) ==
  IF validatePath(filePath) THEN Outcome(TRUE, FALSE, {})
  ELSE IF shouldParseOnly(ev) THEN Outcome(FALSE, FALSE, {})
  ELSE IF filePath = LOOT THEN Outcome(FALSE, TRUE, {})
  ELSE IF GetPlugin(c, filePath) # NullPlugin THEN Outcome(FALSE, TRUE, {"GetPlugin"})
  ELSE IF hasPluginFileExtension(filePath)
    THEN Outcome(FALSE, ExistsInDataPath(files, filePath) \/ ExistsInDataPath(files, filePath \o dot_ghost), {"GetPlugin", "filesystem"})
  ELSE Outcome(FALSE, ExistsInDataPath(files, filePath), {"GetPlugin", "filesystem"})

\* A token of a condition: a keyword ("not", "and", "or", "(", ")"), or a
\* predicate with its path argument.
Token(kind, path) == [kind |-> kind, path |-> path]

Keyword(kind) == Token(kind, <<>>)

\* What a rule of the grammar gives: "ok" with a value and the input left,
\* "fail" when it does not match, "throw" when a predicate threw.
Parsed(status, value, rest, calls) == [status |-> status, value |-> value, rest |-> rest, calls |-> calls]

NoMatch == Parsed("fail", FALSE, <<>>, {})

Thrown == Parsed("throw", FALSE, <<>>, {})

\* The rules of the grammar:
\*   expression: term ("or" term)*
\*   term:       factor ("and" factor)*
\*   factor:     "not" factor | "(" expression ")" | file("path")
RECURSIVE ParseRule(_, _, _, _, _)
ParseRule(rule, ev, c, files, tokens) ==
  IF rule = "factor" THEN
    IF tokens = <<>> THEN NoMatch
    ELSE IF Head(tokens).kind = "not" THEN
      LET r == ParseRule("factor", ev, c, files, Tail(tokens))
      IN IF r.status = "ok" THEN [r EXCEPT !.value = ~@] ELSE r
    ELSE IF Head(tokens).kind = "(" THEN
      LET r == ParseRule("expression", ev, c, files, Tail(tokens))
      IN IF r.status # "ok" THEN r
         ELSE IF r.rest # <<>> /\ Head(r.rest).kind = ")" THEN [r EXCEPT !.rest = Tail(@)]
         ELSE NoMatch
    ELSE IF Head(tokens).kind = "file" THEN
      LET f == fileExists(ev, c, files, Head(tokens).path)
      IN IF f.threw THEN Thrown ELSE Parsed("ok", f.value, Tail(tokens), f.calls)
    ELSE NoMatch
  ELSE
    LET operator == IF rule = "term" THEN "and" ELSE "or"
        operand == IF rule = "term" THEN "factor" ELSE "term"
        l == ParseRule(operand, ev, c, files, tokens)
    IN IF l.status # "ok" \/ l.rest = <<>> \/ Head(l.rest).kind # operator THEN l
       ELSE LET r == ParseRule(rule, ev, c, files, Tail(l.rest))
                value == IF rule = "term" THEN l.value /\ r.value ELSE l.value \/ r.value
            IN IF r.status = "ok" THEN Parsed("ok", value, r.rest, l.calls \cup r.calls)
               ELSE IF r.status = "throw" THEN Thrown
               ELSE l

ParseExpression(ev, c, files, tokens) == ParseRule("expression", ev, c, files, tokens)

\* ConditionEvaluator::parseCondition.
parseCondition(ev, c, files, condition) ==
  IF condition = <<>> THEN Outcome(FALSE, TRUE, {})
  ELSE LET r == ParseExpression(ev, c, files, condition)
       IN IF r.status # "ok" \/ r.rest # <<>>
            THEN Outcome(TRUE, FALSE, {})
            ELSE Outcome(FALSE, r.value, r.calls)

\* What evaluate gives: whether it threw, the value returned, the cache
\* afterwards, whether parseCondition ran, and the GameCache functions
\* called.
Evaluated(threw, value, c, parsed, calls) == [threw |-> threw, value |-> value, cache |-> c, parsed |-> parsed, calls |-> calls]

\* evaluate without the lookup in the condition cache (a mutant).
evaluate_NoLookup(ev, c, files, condition) ==
  LET p == parseCondition(ev, c, files, condition)
  IN IF p.threw THEN Evaluated(TRUE, FALSE, c, TRUE, p.calls)
     ELSE IF shouldParseOnly(ev) THEN Evaluated(FALSE, FALSE, c, TRUE, p.calls)
     ELSE Evaluated(FALSE, p.value, CacheCondition(c, condition, p.value), TRUE, p.calls \cup {"CacheCondition"})

\* ConditionEvaluator::evaluate(const std::string& condition).
evaluate(ev, c, files, condition) ==
  IF shouldParseOnly(ev) THEN
    LET p == parseCondition(ev, c, files, condition)
    IN Evaluated(p.threw, FALSE, c, TRUE, p.calls)
  ELSE IF condition = <<>> THEN Evaluated(FALSE, TRUE, c, FALSE, {})
  ELSE LET cachedValue == GetCachedCondition(c, condition)
       IN IF cachedValue[2] THEN Evaluated(FALSE, cachedValue[1], c, FALSE, {"GetCachedCondition"})
          ELSE LET p == parseCondition(ev, c, files, condition)
               IN IF p.threw THEN Evaluated(TRUE, FALSE, c, TRUE, p.calls \cup {"GetCachedCondition"})
                  ELSE Evaluated(FALSE, p.value, CacheCondition(c, condition, p.value), TRUE, p.calls \cup {"GetCachedCondition", "CacheCondition"})

-----------------------------------------------------------------------------
(* Calls of evaluate while the game's files change.                        *)

\* file("x.esp"), file("b.esp"), file("LOOT") and file("../../x.esp").
file_x == Token("file", x_esp)

file_b == Token("file", b_esp)

file_LOOT == Token("file", LOOT)

file_unsafe == Token("file", dotdot \o <<47>> \o dotdot \o <<47>> \o x_esp)

\* Conditions that follow the grammar and have safe paths.
ValidConditions ==
  { <<Keyword("not"), file_x>>,
    <<Keyword("("), file_x, Keyword("or"), file_LOOT, Keyword(")"), Keyword("and"), Keyword("not"), file_b>> }

\* Conditions that do not: input left over, a missing operand, an unsafe
\* path.
InvalidConditions ==
  { <<file_x, file_x>>,
    <<file_x, Keyword("and")>>,
    <<Keyword("not"), file_unsafe>> }

Conditions == {<<>>} \cup ValidConditions \cup InvalidConditions

\* The states of the data directory: x.esp is absent, present, or ghosted.
DataDirectories == {{}, {x_esp}, {x_esp \o dot_ghost}}

InitEval ==
  /\ SortIdle
  /\ resolver = Idle
  /\ threads = Idle
  /\ history = Idle
  /\ DatabaseIdle
  /\ cache \in {NewCache, LoadedCache}
  /\ dataFiles \in DataDirectories
  /\ \E gameCache \in BOOLEAN : \E loadOrderHandler \in BOOLEAN :
       evaluator = [ev |-> ConditionEvaluator(gameCache, loadOrderHandler),
                    pc |-> "idle", condition |-> <<>>, files |-> {},
                    result |-> Evaluated(FALSE, FALSE, NewCache, FALSE, {}),
                    repeat |-> FALSE, returned |-> {}, first |-> {},
                    recomputed |-> FALSE]

\* A caller evaluates a condition.
Evaluate(condition) ==
  LET ev == evaluator.ev
      r == evaluate(ev, cache, dataFiles, condition)
      live == ~shouldParseOnly(ev) /\ ~r.threw /\ condition # <<>>
      seen == {e \in evaluator.first : e[1] = condition}
  IN /\ cache' = r.cache
     /\ evaluator' = [evaluator EXCEPT
          !.pc = IF r.threw THEN "threw" ELSE "returned",
          !.condition = condition,
          !.files = dataFiles,
          !.result = [r EXCEPT !.cache = NewCache],
          !.repeat = \E e \in evaluator.returned : e[1] = condition,
          !.returned = IF live THEN @ \cup {<<condition, r.value>>} ELSE @,
          !.first = IF live /\ r.parsed /\ seen = {} THEN @ \cup {<<condition, dataFiles, r.value>>} ELSE @,
          !.recomputed = @ \/ (live /\ r.parsed /\ \E e \in seen : e[2] = dataFiles)]
     /\ UNCHANGED <<dataFiles, sortVars, resolver, threads, history, dbVars, probe>>

\* A file appears in the data directory, disappears, or is ghosted.
ChangeGameState ==
  /\ dataFiles' \in DataDirectories \ {dataFiles}
  /\ UNCHANGED <<evaluator, cache, sortVars, resolver, threads, history, dbVars, probe>>

\* The owner of the cache clears the cached conditions.
ClearConditionCache ==
  /\ evaluator.ev.gameCache
  /\ cache' = ClearCachedConditions(cache)
  /\ evaluator' = [evaluator EXCEPT !.returned = {}]
  /\ UNCHANGED <<dataFiles, sortVars, resolver, threads, history, dbVars, probe>>

NextEval ==
  \/ \E condition \in Conditions : Evaluate(condition)
  \/ ChangeGameState
  \/ ClearConditionCache

SpecEval == InitEval /\ [][NextEval]_vars

-----------------------------------------------------------------------------
(* ConditionEvaluator: the other predicates of the condition language.     *)

\* What a predicate that may fill the CRC cache gives: whether it threw
\* ConditionSyntaxError, its value, what it called (GameCache functions,
\* "filesystem", "loadOrderHandler"), and the cache afterwards.
Result(threw, value, calls, c) == [threw |-> threw, value |-> value, calls |-> calls, cache |-> c]

\* LoadOrderHandler::IsPluginActive: b.esp is active, whatever its case.
IsPluginActive(pluginName) == equivalent(pluginName, b_esp)

\* An empty file has, besides its name, a second entry in the set of the
\* files: its name after a NUL character, which no file name contains.  An
\* empty host executable has this entry only.
Emptied(path) == <<0>> \o path

\* GetCrc32: the CRC of a file's content, which is 0 for an empty file.
GetCrc32(files, path) == IF Emptied(path) \in files THEN 0 ELSE Len(path)

\* Version(path), Plugin::GetVersion: the version found in a file or in a
\* plugin's description, as a number; the host executable has version 2.
VersionOf(file) == IF file = LOOT THEN 2 ELSE 1

\* ConditionEvaluator::isPluginActive.
isPluginActive(ev, c, files, pluginName) ==
  IF validatePath(pluginName) THEN Result(TRUE, FALSE, {}, c)
  ELSE IF shouldParseOnly(ev) THEN Result(FALSE, FALSE, {}, c)
  ELSE IF pluginName = LOOT THEN Result(FALSE, FALSE, {}, c)
  ELSE Result(FALSE, IsPluginActive(pluginName), {"loadOrderHandler"}, c)

\* getCrc storing the CRC it computed whatever it is (a mutant).
getCrc_StoreZero(c, files, file) ==
  LET cached == GetCachedCrc(c, file)
      plugin == GetPlugin(c, file)
      pluginCrc == IF plugin # NullPlugin THEN plugin.crc ELSE 0
      fileCrc ==
        IF ExistsInDataPath(files, file) THEN GetCrc32(files, file)
        ELSE IF hasPluginFileExtension(file) /\ ExistsInDataPath(files, file \o dot_ghost)
          THEN GetCrc32(files, file \o dot_ghost)
        ELSE 0
      crc == IF pluginCrc # 0 THEN pluginCrc ELSE fileCrc
      calls == {"GetCachedCrc", "GetPlugin"} \cup (IF pluginCrc = 0 THEN {"filesystem"} ELSE {})
  IN IF cached # 0 THEN Result(FALSE, cached, {"GetCachedCrc"}, c)
     ELSE IF file = LOOT
       THEN Result(FALSE, GetCrc32(files, LOOT), {"GetCachedCrc", "filesystem", "CacheCrc"}, CacheCrc(c, file, GetCrc32(files, LOOT)))
     ELSE Result(FALSE, crc, calls \cup {"CacheCrc"}, CacheCrc(c, file, crc))

\* ConditionEvaluator::getCrc: the CRC, the calls made and the cache
\* afterwards.
getCrc(c, files, file) ==
  LET cached == GetCachedCrc(c, file)
      plugin == GetPlugin(c, file)
      pluginCrc == IF plugin # NullPlugin THEN plugin.crc ELSE 0
      fileCrc ==
        IF ExistsInDataPath(files, file) THEN GetCrc32(files, file)
        ELSE IF hasPluginFileExtension(file) /\ ExistsInDataPath(files, file \o dot_ghost)
          THEN GetCrc32(files, file \o dot_ghost)
        ELSE 0
      crc == IF pluginCrc # 0 THEN pluginCrc ELSE fileCrc
      calls == {"GetCachedCrc", "GetPlugin"} \cup (IF pluginCrc = 0 THEN {"filesystem"} ELSE {})
  IN IF cached # 0 THEN Result(FALSE, cached, {"GetCachedCrc"}, c)
     ELSE IF file = LOOT
       THEN Result(FALSE, GetCrc32(files, LOOT), {"GetCachedCrc", "filesystem", "CacheCrc"}, CacheCrc(c, file, GetCrc32(files, LOOT)))
     ELSE IF crc # 0 THEN Result(FALSE, crc, calls \cup {"CacheCrc"}, CacheCrc(c, file, crc))
     ELSE Result(FALSE, crc, calls, c)

\* ConditionEvaluator::checksumMatches.
checksumMatches(ev, c, files, filePath, checksum) ==
  IF validatePath(filePath) THEN Result(TRUE, FALSE, {}, c)
  ELSE IF shouldParseOnly(ev) THEN Result(FALSE, FALSE, {}, c)
  ELSE LET r == getCrc(c, files, filePath)
       IN [r EXCEPT !.value = (checksum = r.value)]

\* ConditionEvaluator::getVersion: the calls it makes (the version itself
\* is VersionOf).
getVersionCalls(c, filePath) ==
  IF filePath = LOOT THEN {"filesystem"}
  ELSE IF GetPlugin(c, filePath) # NullPlugin THEN {"GetPlugin"}
  ELSE {"GetPlugin", "filesystem"}

\* The comparators of version().
Comparators == {"==", "!=", "<", ">", "<=", ">="}

\* compareVersions without "<=" among the comparators that hold for a
\* missing file (a mutant).
compareVersions_MissingNotLessOrEqual(ev, c, files, filePath, testVersion, comparator) ==
  LET f == fileExists(ev, c, files, filePath)
  IN Result(f.threw, ~f.threw /\ ~f.value /\ comparator \in {"!=", "<"}, f.calls, c)

\* ConditionEvaluator::compareVersions.
compareVersions(ev, c, files, filePath, testVersion, comparator) ==
  LET f == fileExists(ev, c, files, filePath)
      givenVersion == testVersion
      trueVersion == VersionOf(filePath)
  IN IF f.threw THEN Result(TRUE, FALSE, {}, c)
     ELSE IF ~f.value THEN Result(FALSE, comparator \in {"!=", "<", "<="}, f.calls, c)
     ELSE Result(FALSE,
                 \/ (comparator = "==" /\ trueVersion = givenVersion)
                 \/ (comparator = "!=" /\ trueVersion # givenVersion)
                 \/ (comparator = "<" /\ trueVersion < givenVersion)
                 \/ (comparator = ">" /\ trueVersion > givenVersion)
                 \/ (comparator = "<=" /\ trueVersion <= givenVersion)
                 \/ (comparator = ">=" /\ trueVersion >= givenVersion),
                 f.calls \cup getVersionCalls(c, filePath), c)

\* regexString.rfind('/'): the position of the last "/", 0 when there is
\* none.
RECURSIVE LastSlash(_, _)
LastSlash(str, i) ==
  IF i = 0 THEN 0 ELSE IF str[i] = 47 THEN i ELSE LastSlash(str, i - 1)

\* ConditionEvaluator::getRegexParentPath.
getRegexParentPath(regexString) ==
  LET pos == LastSlash(regexString, Len(regexString))
  IN IF pos = 0 THEN <<>> ELSE SubSeq(regexString, 1, pos - 1)

\* ConditionEvaluator::getRegexFilename.
getRegexFilename(regexString) ==
  LET pos == LastSlash(regexString, Len(regexString))
  IN IF pos = 0 THEN regexString ELSE SubSeq(regexString, pos + 1, Len(regexString))

\* std::regex(regexString) throws: of the regex syntax, the model has
\* literal characters, "." for any character, and an unclosed "[" as the
\* syntax error.
validateRegex(regexString) ==
  /\ \E i \in 1..Len(regexString) : regexString[i] = 91
  /\ \A i \in 1..Len(regexString) : regexString[i] # 93

\* std::regex_match(filename, regex) with std::regex::icase.
regex_match(filename, regex) ==
  /\ Len(filename) = Len(regex)
  /\ \A i \in 1..Len(regex) : regex[i] = 46 \/ ToLowerChar(regex[i]) = ToLowerChar(filename[i])

\* ConditionEvaluator::splitRegex: whether it threw, the parent path and
\* the filename regex.
splitRegex(regexString) ==
  LET filename == getRegexFilename(regexString)
      parent == getRegexParentPath(regexString)
  IN [threw |-> validateRegex(regexString) \/ validatePath(parent) \/ validateRegex(filename),
      parent |-> parent, regex |-> filename]

\* ConditionEvaluator::isGameSubdirectory: the data directory has no
\* subdirectories, so only the empty parent path is one.
isGameSubdirectory(files, path) == path = <<>>

\* ConditionEvaluator::isRegexMatchInDataDirectory with the condition that
\* holds of every filename.
isRegexMatchInDataDirectory(files, pathRegex) ==
  /\ isGameSubdirectory(files, pathRegex.parent)
  /\ \E filename \in files : regex_match(filename, pathRegex.regex)

\* ConditionEvaluator::regexMatchExists.
regexMatchExists(ev, c, files, regexString) ==
  LET pathRegex == splitRegex(regexString)
  IN IF pathRegex.threw THEN Result(TRUE, FALSE, {}, c)
     ELSE IF shouldParseOnly(ev) THEN Result(FALSE, FALSE, {}, c)
     ELSE Result(FALSE, isRegexMatchInDataDirectory(files, pathRegex), {"filesystem"}, c)

-----------------------------------------------------------------------------
(* Calls of the predicates with paths of every shape.                      *)

\* A directory name: "a".
dir_a == <<97>>

\* The components a path is made of.
PathParts == {dot, dotdot, dir_a}

\* The component sequences of every path the predicates are called with.
PathShapes == UNION {[1..n -> PathParts] : n \in 1..MaxComponents}

\* Paths that name a file: a plugin that is or is not in the data directory,
\* a loaded plugin, the host, a file one level above the data directory.
FilePaths == {x_esp, b_esp, LOOT, dot \o <<47>> \o x_esp, dotdot \o <<47>> \o x_esp}

\* The paths version() is called with: also "a/../..".
VersionPaths == FilePaths \cup {JoinPath(<<dir_a, dotdot, dotdot>>)}

Paths == {JoinPath(components) : components \in PathShapes} \cup FilePaths

\* Filename regexes: one that matches x.esp, and one that is no regex.
FilenameRegexes == {<<120, 46, 101, 115, 46>>, <<91, 120>>}

\* A call of a predicate function (the arguments it does not take are 0
\* and "").
PredicateCall(fn, path, version, comparator, checksum) == [fn |-> fn, path |-> path, version |-> version, comparator |-> comparator, checksum |-> checksum]

PredicateCalls ==
  {PredicateCall(fn, path, 0, "", 0) : fn \in {"file", "active"}, path \in Paths}
    \cup {PredicateCall("checksum", path, 0, "", 5) : path \in Paths}
    \cup {PredicateCall("regex", path \o <<47>> \o regex, 0, "", 0) : path \in Paths, regex \in FilenameRegexes}
    \cup {PredicateCall("regex", regex, 0, "", 0) : regex \in FilenameRegexes}
    \cup {PredicateCall("version", path, version, comparator, 0) : path \in VersionPaths, version \in 0..2, comparator \in Comparators}

\* The function of the evaluator that the grammar calls for a predicate.
ApplyPredicate(ev, c, files, call) ==
  CASE call.fn = "file" ->
         LET f == fileExists(ev, c, files, call.path) IN Result(f.threw, f.value, f.calls, c)
    [] call.fn = "active" -> isPluginActive(ev, c, files, call.path)
    [] call.fn = "checksum" -> checksumMatches(ev, c, files, call.path, call.checksum)
    [] call.fn = "version" -> compareVersions(ev, c, files, call.path, call.version, call.comparator)
    [] call.fn = "regex" -> regexMatchExists(ev, c, files, call.path)

InitPredicates ==
  /\ SortIdle
  /\ resolver = Idle
  /\ threads = Idle
  /\ history = Idle
  /\ DatabaseIdle
  /\ cache \in {NewCache, LoadedCache}
  /\ dataFiles \in DataDirectories
  /\ \E gameCache \in BOOLEAN : \E loadOrderHandler \in BOOLEAN :
       evaluator = [ev |-> ConditionEvaluator(gameCache, loadOrderHandler),
                    pc |-> "idle", call |-> PredicateCall("", <<>>, 0, "", 0),
                    files |-> {}, before |-> NewCache,
                    result |-> Result(FALSE, FALSE, {}, NewCache)]

\* The grammar calls a predicate function.
CallPredicate(call) ==
  LET r == ApplyPredicate(evaluator.ev, cache, dataFiles, call)
  IN /\ evaluator.pc = "idle"
     /\ cache' = r.cache
     /\ evaluator' = [evaluator EXCEPT
          !.pc = IF r.threw THEN "threw" ELSE "returned",
          !.call = call,
          !.files = dataFiles,
          !.before = cache,
          !.result = [r EXCEPT !.cache = NewCache]]
     /\ UNCHANGED <<dataFiles, sortVars, resolver, threads, history, dbVars, probe>>

NextPredicates ==
  \/ \E call \in PredicateCalls : CallPredicate(call)
  \/ ChangeGameState

SpecPredicates == InitPredicates /\ [][NextPredicates]_vars

-----------------------------------------------------------------------------
(* PluginMetadata and ConditionEvaluator::evaluateAll.                     *)

\* No group is set: std::optional<std::string>(); a group that is set is
\* the sequence of its name alone.
NoGroup == <<>>

\* PluginMetadata with all its fields; the collections are sequences of
\* distinct entries in the order in which the object iterates them.
Metadata(name, group, enabled, locations, loadAfter, requirements, incompatibilities, messages, tags, dirtyInfo, cleanInfo) ==
  [name |-> name, group |-> group, enabled |-> enabled, locations |-> locations,
   loadAfter |-> loadAfter, requirements |-> requirements,
   incompatibilities |-> incompatibilities, messages |-> messages,
   tags |-> tags, dirtyInfo |-> dirtyInfo, cleanInfo |-> cleanInfo]

\* PluginMetadata(name): enabled, nothing else set.
PluginMetadata(name) == Metadata(name, NoGroup, TRUE, <<>>, <<>>, <<>>, <<>>, <<>>, <<>>, <<>>, <<>>)

\* PluginMetadata::IsRegexPlugin: the name has one of the characters
\* : \ * ? |
IsRegexPlugin(md) == \E i \in 1..Len(md.name) : md.name[i] \in {58, 92, 42, 63, 124}

\* A File, a Message or a Tag: what it says, and its condition.
Conditional(content, condition) == [content |-> content, condition |-> condition]

\* A PluginCleaningData record with its CRC.
CleaningData(crc) == [crc |-> crc]

\* F applied to the value v, v being computed once.
Bind(v, F(_)) == CHOOSE out \in {F(r) : r \in {v}} : TRUE

\* The loop `for (entry : entries) if (evaluate(entry.GetCondition()))
\* keep entry`, from entry i on: whether an evaluate threw, the entries
\* kept and the cache afterwards.
RECURSIVE FilterByCondition(_, _, _, _, _)
FilterByCondition(ev, c, files, entries, i) ==
  IF i > Len(entries) THEN [threw |-> FALSE, kept |-> <<>>, cache |-> c]
  ELSE Bind(evaluate(ev, c, files, entries[i].condition),
            LAMBDA r :
              IF r.threw THEN [threw |-> TRUE, kept |-> <<>>, cache |-> r.cache]
              ELSE Bind(FilterByCondition(ev, r.cache, files, entries, i + 1),
                        LAMBDA rest :
                          IF r.value THEN [rest EXCEPT !.kept = <<entries[i]>> \o @]
                          ELSE rest))

\* ConditionEvaluator::evaluate(cleaningData, pluginName): the value and
\* the cache afterwards.
evaluateCleaningData(ev, c, files, cleaningData, pluginName) ==
  IF shouldParseOnly(ev) \/ pluginName = <<>> THEN Result(FALSE, FALSE, {}, c)
  ELSE Bind(getCrc(c, files, pluginName),
            LAMBDA r : [r EXCEPT !.value = (cleaningData.crc = r.value)])

\* The loop `for (info : infos) if (evaluate(info, name)) keep info`.
RECURSIVE FilterByCrc(_, _, _, _, _, _)
FilterByCrc(ev, c, files, infos, pluginName, i) ==
  IF i > Len(infos) THEN [threw |-> FALSE, kept |-> <<>>, cache |-> c]
  ELSE Bind(evaluateCleaningData(ev, c, files, infos[i], pluginName),
            LAMBDA r :
              Bind(FilterByCrc(ev, r.cache, files, infos, pluginName, i + 1),
                   LAMBDA rest :
                     IF r.value THEN [rest EXCEPT !.kept = <<infos[i]>> \o @]
                     ELSE rest))

\* evaluateAll that does not copy the group (a mutant).
evaluateAll_NoGroup(ev, c, files, pluginMetadata) ==
  [threw |-> FALSE, metadata |-> [pluginMetadata EXCEPT !.group = NoGroup], cache |-> c]

\* The lists of evaluateAll filtered one after the other, each with the
\* cache the one before left: the results so far, in the order loadAfter,
\* requirements, incompatibilities, messages, tags, dirtyInfo, cleanInfo.
\* A ConditionSyntaxError ends the chain; a regex entry's cleaning data are
\* not filtered.
RECURSIVE FilterLists(_, _, _, _, _)
FilterLists(ev, files, pluginMetadata, done, c) ==
  LET lists == <<pluginMetadata.loadAfter, pluginMetadata.requirements,
                 pluginMetadata.incompatibilities, pluginMetadata.messages,
                 pluginMetadata.tags, pluginMetadata.dirtyInfo,
                 pluginMetadata.cleanInfo>>
      n == Len(done) + 1
  IN IF n > Len(lists) \/ (n > 5 /\ IsRegexPlugin(pluginMetadata))
     THEN [threw |-> FALSE, kept |-> done, cache |-> c]
     ELSE Bind(IF n <= 5
               THEN FilterByCondition(ev, c, files, lists[n], 1)
               ELSE FilterByCrc(ev, c, files, lists[n], pluginMetadata.name, 1),
               LAMBDA r :
                 IF r.threw THEN [threw |-> TRUE, kept |-> done, cache |-> r.cache]
                 ELSE FilterLists(ev, files, pluginMetadata,
                                  Append(done, r.kept), r.cache))

\* ConditionEvaluator::evaluateAll: whether it threw ConditionSyntaxError,
\* the metadata returned and the cache afterwards.
evaluateAll(ev, c, files, pluginMetadata) ==
  IF shouldParseOnly(ev) THEN [threw |-> FALSE, metadata |-> pluginMetadata, cache |-> c]
  ELSE
    LET evaluatedMetadata ==
          [PluginMetadata(pluginMetadata.name) EXCEPT
             !.enabled = pluginMetadata.enabled,
             !.locations = pluginMetadata.locations,
             !.group = IF pluginMetadata.group # NoGroup THEN pluginMetadata.group ELSE @]
    IN Bind(FilterLists(ev, files, pluginMetadata, <<>>, c),
            LAMBDA f :
              IF f.threw
              THEN [threw |-> TRUE, metadata |-> pluginMetadata, cache |-> f.cache]
              ELSE [threw |-> FALSE,
                    metadata |-> [evaluatedMetadata EXCEPT
                      !.loadAfter = f.kept[1],
                      !.requirements = f.kept[2],
                      !.incompatibilities = f.kept[3],
                      !.messages = f.kept[4],
                      !.tags = f.kept[5],
                      !.dirtyInfo = IF Len(f.kept) > 5 THEN f.kept[6] ELSE @,
                      !.cleanInfo = IF Len(f.kept) > 5 THEN f.kept[7] ELSE @],
                    cache |-> f.cache])


\* Names of metadata entries: x.esp, b.esp and the regex entry x.*
x_regex == <<120, 46, 42>>

EntryNames == {x_esp, b_esp, x_regex}

\* Conditions of the entries: one that holds when x.esp is absent, one
\* that holds whatever the data directory has, and one that does not parse.
WhenAbsent == <<Keyword("not"), file_x>>

Always == <<Keyword("("), file_x, Keyword("or"), file_LOOT, Keyword(")"), Keyword("and"), Keyword("not"), file_b>>

Malformed == <<file_x, Keyword("and")>>

\* Lists of at most two files, messages or tags ("m" sorts before "n").
EntryLists ==
  {<<>>}
    \cup {<<Conditional("m", c)>> : c \in {<<>>, WhenAbsent, Malformed}}
    \cup {<<Conditional("m", c1), Conditional("n", c2)>> : c1 \in {WhenAbsent, Always}, c2 \in {<<>>, WhenAbsent, Always}}

\* The load-after files, requirements, incompatibilities and tags of the
\* inputs.
Collections ==
  { <<<<>>, <<>>, <<>>, <<>>>>,
    <<<<Conditional("m", WhenAbsent)>>, <<Conditional("m", Always)>>, <<>>, <<Conditional("m", WhenAbsent)>>>>,
    <<<<Conditional("m", Always)>>, <<>>, <<Conditional("m", WhenAbsent), Conditional("n", <<>>)>>, <<Conditional("m", Always)>>>>,
    <<<<Conditional("m", Malformed)>>, <<>>, <<>>, <<>>>>,
    <<<<>>, <<Conditional("m", WhenAbsent)>>, <<Conditional("m", Always)>>, <<Conditional("m", <<>>), Conditional("n", WhenAbsent)>>>> }

\* Dirty and clean info: of CRC 5 (x.esp's), 1 (that of the cached plugin
\* b.esp) and 7 (of no file).
InfoLists ==
  { <<<<>>, <<>>>>,
    <<<<CleaningData(1), CleaningData(5)>>, <<CleaningData(7)>>>>,
    <<<<CleaningData(7)>>, <<CleaningData(1), CleaningData(5)>>>> }

\* Group, enabled flag and locations of the inputs.
Settings == {<<NoGroup, TRUE, <<>>>>, <<<<"late">>, FALSE, <<"url">>>>, <<<<"late">>, TRUE, <<>>>>}

MetadataInputs ==
  {Metadata(name, s[1], s[2], s[3], cs[1], cs[2], cs[3], ms, cs[4], info[1], info[2]) :
     name \in EntryNames, s \in Settings, cs \in Collections, ms \in EntryLists, info \in InfoLists}

InitMetadata ==
  /\ SortIdle
  /\ resolver = Idle
  /\ threads = Idle
  /\ history = Idle
  /\ DatabaseIdle
  /\ cache \in {NewCache, LoadedCache}
  /\ dataFiles \in DataDirectories
  /\ \E gameCache \in BOOLEAN :
       evaluator = [ev |-> ConditionEvaluator(gameCache, TRUE),
                    pc |-> "idle", call |-> PluginMetadata(<<>>),
                    files |-> {}, before |-> NewCache,
                    result |-> [threw |-> FALSE, metadata |-> PluginMetadata(<<>>), cache |-> NewCache]]

\* A caller has the metadata of a plugin evaluated.
EvaluateAll(pluginMetadata) ==
  LET r == evaluateAll(evaluator.ev, cache, dataFiles, pluginMetadata)
  IN /\ evaluator.pc = "idle"
     /\ cache' = r.cache
     /\ evaluator' = [evaluator EXCEPT
          !.pc = IF r.threw THEN "threw" ELSE "returned",
          !.call = pluginMetadata,
          !.files = dataFiles,
          !.before = cache,
          !.result = r]
     /\ UNCHANGED <<dataFiles, sortVars, resolver, threads, history, dbVars, probe>>

NextMetadata == \E pluginMetadata \in MetadataInputs : EvaluateAll(pluginMetadata)

SpecMetadata == InitMetadata /\ [][NextMetadata]_vars

-----------------------------------------------------------------------------
(* MetadataList and the queries of ApiDatabase.                            *)

\* A MetadataList: its groups, its exact-name entries and its regex
\* entries, both in document order.
MetadataList(groups, plugins, regexPlugins) == [groups |-> groups, plugins |-> plugins, regexPlugins |-> regexPlugins]

\* MetadataList::Plugins: the exact-name entries, then the regex entries.
Plugins(list) == list.plugins \o list.regexPlugins

\* The entries of `more` that `entries` does not have, appended to it.
RECURSIVE UnionSeq(_, _)
UnionSeq(entries, more) ==
  IF more = <<>> THEN entries
  ELSE UnionSeq(IF Head(more) \in SeqToSet(entries) THEN entries ELSE Append(entries, Head(more)), Tail(more))

\* PluginMetadata::MergeMetadata: the name stays; the group is that of the
\* first that sets it; enabled is ANDed; messages are appended; the other
\* collections are unioned.
MergeMetadata(md, plugin) ==
  [name |-> md.name,
   group |-> IF md.group # NoGroup THEN md.group ELSE plugin.group,
   enabled |-> md.enabled /\ plugin.enabled,
   locations |-> UnionSeq(md.locations, plugin.locations),
   loadAfter |-> UnionSeq(md.loadAfter, plugin.loadAfter),
   requirements |-> UnionSeq(md.requirements, plugin.requirements),
   incompatibilities |-> UnionSeq(md.incompatibilities, plugin.incompatibilities),
   messages |-> md.messages \o plugin.messages,
   tags |-> UnionSeq(md.tags, plugin.tags),
   dirtyInfo |-> UnionSeq(md.dirtyInfo, plugin.dirtyInfo),
   cleanInfo |-> UnionSeq(md.cleanInfo, plugin.cleanInfo)]

\* PluginMetadata::NameMatches for a regex entry: of the regex syntax, the
\* model has literal characters, "." and a closing ".*".
NameMatches(md, pluginName) ==
  LET n == Len(md.name) - 2
  IN IF n >= 0 /\ SubSeq(md.name, n + 1, n + 2) = <<46, 42>>
       THEN Len(pluginName) >= n /\ regex_match(SubSeq(pluginName, 1, n), SubSeq(md.name, 1, n))
       ELSE regex_match(pluginName, md.name)

\* The regex entries from entry i on that match the name, merged into md
\* in document order.
RECURSIVE MergeMatching(_, _, _, _)
MergeMatching(md, regexPlugins, pluginName, i) ==
  IF i > Len(regexPlugins) THEN md
  ELSE MergeMatching(IF NameMatches(regexPlugins[i], pluginName) THEN MergeMetadata(md, regexPlugins[i]) ELSE md,
                     regexPlugins, pluginName, i + 1)

\* MetadataList::FindPlugin: nothing (the empty sequence) when no entry has
\* the name, or the one-element sequence of the merged metadata.
FindPlugin(list, pluginName) ==
  LET exact == SelectSeq(list.plugins, LAMBDA e : equivalent(e.name, pluginName))
      hit == exact # <<>> \/ \E i \in 1..Len(list.regexPlugins) : NameMatches(list.regexPlugins[i], pluginName)
      start == IF exact # <<>> THEN exact[1] ELSE PluginMetadata(pluginName)
  IN IF hit THEN <<MergeMatching(start, list.regexPlugins, pluginName, 1)>> ELSE <<>>

\* What a query of the database gives: whether it threw, and the metadata,
\* the groups or the list asked for.
Answer(threw, metadata, groups, list, c) == [threw |-> threw, metadata |-> metadata, groups |-> groups, list |-> list, cache |-> c]

NoAnswer == Answer(FALSE, <<>>, {}, <<>>, NewCache)

\* GetPluginMetadata that gives the userlist's metadata when both
\* documents have the plugin (a mutant).
GetPluginMetadata_UserlistWins(ev, c, files, masterlist, userlist, plugin, includeUserMetadata, evaluateConditions) ==
  LET userMetadata == FindPlugin(userlist, plugin)
      metadata == IF includeUserMetadata /\ userMetadata # <<>> THEN userMetadata ELSE FindPlugin(masterlist, plugin)
  IN Answer(FALSE, metadata, {}, <<>>, c)

\* ApiDatabase::GetPluginMetadata.
GetPluginMetadata(ev, c, files, masterlist, userlist, plugin, includeUserMetadata, evaluateConditions) ==
  LET found == FindPlugin(masterlist, plugin)
      userMetadata == FindPlugin(userlist, plugin)
      metadata ==
        IF includeUserMetadata
        THEN IF found # <<>> /\ userMetadata # <<>> THEN <<MergeMetadata(found[1], userMetadata[1])>>
             ELSE IF userMetadata # <<>> THEN userMetadata
             ELSE found
        ELSE found
  IN IF evaluateConditions /\ metadata # <<>>
       THEN LET r == evaluateAll(ev, c, files, metadata[1])
            IN Answer(r.threw, IF r.threw THEN <<>> ELSE <<r.metadata>>, {}, <<>>, r.cache)
       ELSE Answer(FALSE, metadata, {}, <<>>, c)

\* The loop of WriteMinimalList over the masterlist's plugins, from plugin
\* i on.
RECURSIVE MinimalPlugins(_, _)
MinimalPlugins(plugins, i) ==
  IF i > Len(plugins) THEN <<>>
  ELSE LET plugin == plugins[i]
           minimalPlugin == [PluginMetadata(plugin.name) EXCEPT !.tags = plugin.tags, !.dirtyInfo = plugin.dirtyInfo]
       IN <<minimalPlugin>> \o MinimalPlugins(plugins, i + 1)

\* ApiDatabase::WriteMinimalList: the list handed to MetadataList::Save,
\* or an exception when the output directory is missing or the output file
\* exists and is not to be overwritten.
WriteMinimalList(masterlist, parentExists, outputExists, overwrite) ==
  IF ~parentExists THEN Answer(TRUE, <<>>, {}, <<>>, NewCache)
  ELSE IF outputExists /\ ~overwrite THEN Answer(TRUE, <<>>, {}, <<>>, NewCache)
  ELSE Answer(FALSE, <<>>, {}, MinimalPlugins(Plugins(masterlist), 1), NewCache)

\* The groups of the documents: "mid" is absent or loads after nothing,
\* "early" or "late"; the default group is absent or loads after "late".
DocumentGroups ==
  {mid \cup default :
     mid \in {{}} \cup {{Group("mid", after)} : after \in {{}, {"early"}, {"late"}}},
     default \in {{}, {Group(DefaultGroup, {"late"})}}}

\* The plugin entries of the documents.
X_ESP == <<88, 46, 69, 83, 80>>

TaggedEntry(name) ==
  Metadata(name, <<"mid">>, TRUE, <<>>, <<>>, <<>>, <<>>,
           <<Conditional("m", WhenAbsent)>>, <<Conditional("m", WhenAbsent), Conditional("n", Always)>>,
           <<CleaningData(5), CleaningData(7)>>, <<>>)

MessageEntry(name) ==
  Metadata(name, NoGroup, FALSE, <<"url">>, <<Conditional("m", Always)>>, <<>>, <<>>,
           <<Conditional("n", Always)>>, <<>>, <<>>, <<CleaningData(5)>>)

DocumentPlugins ==
  { <<<<>>, <<>>>>,
    <<<<TaggedEntry(x_esp)>>, <<>>>>,
    <<<<MessageEntry(X_ESP), TaggedEntry(b_esp)>>, <<>>>>,
    <<<<PluginMetadata(b_esp)>>, <<MessageEntry(x_regex)>>>>,
    <<<<>>, <<TaggedEntry(x_regex)>>>> }

Documents == {MetadataList(groups, ps[1], ps[2]) : groups \in DocumentGroups, ps \in DocumentPlugins}

\* A query of the database (the arguments it does not take are <<>> and
\* FALSE).
Query(fn, plugin, includeUserMetadata, evaluateConditions, parentExists, outputExists, overwrite) ==
  [fn |-> fn, plugin |-> plugin, includeUserMetadata |-> includeUserMetadata,
   evaluateConditions |-> evaluateConditions, parentExists |-> parentExists,
   outputExists |-> outputExists, overwrite |-> overwrite]

QueriedNames == {x_esp, b_esp, c_esp}

InitDatabase ==
  /\ SortIdle
  /\ resolver = Idle
  /\ threads = Idle
  /\ history = Idle
  /\ probe = Idle
  /\ cache = NewCache
  /\ dataFiles \in {{}, {x_esp}}
  /\ evaluator = [ev |-> ConditionEvaluator(TRUE, TRUE), pc |-> "idle"]
  /\ \E masterlist \in Documents : \E userlist \in Documents :
       database = [masterlist |-> masterlist, userlist |-> userlist, pc |-> "idle",
                   call |-> Query("", <<>>, FALSE, FALSE, FALSE, FALSE, FALSE),
                   before |-> [masterlist |-> masterlist, userlist |-> userlist],
                   result |-> NoAnswer]

\* What a query leaves behind: the documents as they were, the query and
\* its answer.
Answered(call, r) ==
  [database EXCEPT
     !.pc = IF r.threw THEN "threw" ELSE "returned",
     !.call = call,
     !.before = [masterlist |-> database.masterlist, userlist |-> database.userlist],
     !.result = r]

\* A client asks for the metadata of a plugin.
CallGetPluginMetadata(plugin, includeUserMetadata, evaluateConditions) ==
  LET r == GetPluginMetadata(evaluator.ev, cache, dataFiles, database.masterlist, database.userlist,
                             plugin, includeUserMetadata, evaluateConditions)
  IN /\ database.pc = "idle"
     /\ database' = Answered(Query("GetPluginMetadata", plugin, includeUserMetadata, evaluateConditions, FALSE, FALSE, FALSE), r)
     /\ cache' = r.cache
     /\ UNCHANGED <<evalVars, sortVars, resolver, threads, history, probe>>

\* A client asks for the groups.
CallGetGroups(includeUserMetadata) ==
  LET groups == GetGroups(database.masterlist.groups, database.userlist.groups, includeUserMetadata)
  IN /\ database.pc = "idle"
     /\ database' = Answered(Query("GetGroups", <<>>, includeUserMetadata, FALSE, FALSE, FALSE, FALSE),
                             Answer(FALSE, <<>>, groups, <<>>, cache))
     /\ UNCHANGED <<cache, evalVars, sortVars, resolver, threads, history, probe>>

\* A client has the minimal list written.
CallWriteMinimalList(parentExists, outputExists, overwrite) ==
  LET r == WriteMinimalList(database.masterlist, parentExists, outputExists, overwrite)
  IN /\ database.pc = "idle"
     /\ database' = Answered(Query("WriteMinimalList", <<>>, FALSE, FALSE, parentExists, outputExists, overwrite), r)
     /\ UNCHANGED <<cache, evalVars, sortVars, resolver, threads, history, probe>>

NextDatabase ==
  \/ \E plugin \in QueriedNames : \E includeUserMetadata \in BOOLEAN : \E evaluateConditions \in BOOLEAN :
       CallGetPluginMetadata(plugin, includeUserMetadata, evaluateConditions)
  \/ \E includeUserMetadata \in BOOLEAN : CallGetGroups(includeUserMetadata)
  \/ \E parentExists \in BOOLEAN : \E outputExists \in BOOLEAN : \E overwrite \in BOOLEAN :
       CallWriteMinimalList(parentExists, outputExists, overwrite)

SpecDatabase == InitDatabase /\ [][NextDatabase]_vars

-----------------------------------------------------------------------------
(* The graph and its paths cache under any sequence of calls of AddEdge    *)
(* and EdgeCreatesCycle, which is all that the phases of Sort do to them.  *)

\* The largest number of edges of the graph.
MaxEdges == 3

\* The plugins of the graph.
PathsNames == {b_esp, c_esp, d_esp, x_esp}

PathsGame == Game({Plugin(n, FALSE) : n \in PathsNames}, {}, {}, <<>>, <<>>, "tes4", FALSE, PathsNames)

\* The type of the edges added: AddEdge does not look at it.
ProbedTypes == {"group"}

\* A call: the function, its arguments, what it returned (FALSE for
\* AddEdge), the edges before it, whether the paths cache had the pair
\* <<from, to>> and the pair <<to, from>> before it, and how many pairs it
\* had.
Probe(fn, fromVertex, toVertex, type, result, g) ==
  [pc |-> fn, from |-> fromVertex, to |-> toVertex, type |-> type, result |-> result, edges |-> g.e,
   cached |-> <<fromVertex, toVertex>> \in g.p, cachedBack |-> <<toVertex, fromVertex>> \in g.p,
   size |-> Cardinality(g.p)]

\* Sort has cleared the graph and added the vertices.
InitPaths ==
  /\ game = PathsGame
  /\ pc = "vertices"
  /\ vertices = AddPluginVertices(PathsGame, CHOOSE order \in Enumerations(PathsGame.plugins) : TRUE).v
  /\ edges = <<>>
  /\ pathsCache = {}
  /\ groupPluginsToIgnore = <<>>
  /\ acyclicEdgePairs = <<>>
  /\ output = <<>>
  /\ error = ""
  /\ errorGroup = ""
  /\ resolver = Idle
  /\ CacheIdle
  /\ EvaluatorIdle
  /\ database = Idle
  /\ probe = Idle

\* A phase calls AddEdge.
CallAddEdge(fromVertex, toVertex, edgeType) ==
  /\ Len(AddEdge(graph, fromVertex, toVertex, edgeType).e) <= MaxEdges
  /\ SetGraph(AddEdge(graph, fromVertex, toVertex, edgeType))
  /\ probe' = Probe("AddEdge", fromVertex, toVertex, edgeType, FALSE, graph)
  /\ UNCHANGED <<game, pc, groupPluginsToIgnore, acyclicEdgePairs, output, error, errorGroup>>
  /\ UNCHANGED <<resolver, cacheVars, evalVars, dbVars>>

\* A phase calls EdgeCreatesCycle.
CallEdgeCreatesCycle(fromVertex, toVertex) ==
  LET c == EdgeCreatesCycle(graph, fromVertex, toVertex)
  IN /\ pathsCache' = c.p
     /\ probe' = Probe("EdgeCreatesCycle", fromVertex, toVertex, "", c.result, graph)
     /\ UNCHANGED <<game, pc, vertices, edges, groupPluginsToIgnore, acyclicEdgePairs, output, error, errorGroup>>
     /\ UNCHANGED <<resolver, cacheVars, evalVars, dbVars>>

NextPaths ==
  \/ \E fromVertex, toVertex \in 1..Len(vertices) : \E edgeType \in ProbedTypes :
       fromVertex # toVertex /\ CallAddEdge(fromVertex, toVertex, edgeType)
  \/ \E fromVertex, toVertex \in 1..Len(vertices) :
       fromVertex # toVertex /\ CallEdgeCreatesCycle(fromVertex, toVertex)

SpecPaths == InitPaths /\ [][NextPaths]_vars

-----------------------------------------------------------------------------
(* Two calls of Sort on one sorter, the second on any game snapshot.       *)

\* Two plugins, the first naming the second in one of its lists.
Naming(plugin, kind, other) ==
  {[plugin EXCEPT ![kind] = <<other.name>>], other}

\* The snapshots: nothing but the tie-break; a requirement against it (two
\* and three plugins); a master that has a non-master as its master (a
\* cycle); a plugin in a group that is not defined; no plugin.
ResortGames ==
  { Game({Plugin(n, FALSE) : n \in ChainNames}, {}, {}, <<>>, <<>>, "tes4", FALSE, ChainNames),
    Game(Naming(Plugin(b_esp, FALSE), "userRequirements", Plugin(c_esp, FALSE)),
         {}, {}, <<>>, <<>>, "tes4", FALSE, {b_esp, c_esp}),
    Game(Naming(Plugin(c_esp, FALSE), "userRequirements", Plugin(d_esp, FALSE))
           \cup {Plugin(b_esp, FALSE)},
         {}, {}, <<>>, <<>>, "tes4", FALSE, ChainNames),
    Game(Naming(Plugin(A_esm, TRUE), "masters", Plugin(b_esp, FALSE)),
         {}, {}, <<>>, <<>>, "tes4", FALSE, {A_esm, b_esp}),
    Game({[Plugin(b_esp, FALSE) EXCEPT !.group = "late"], Plugin(c_esp, FALSE)},
         {}, {}, <<>>, <<>>, "tes4", FALSE, {b_esp, c_esp}),
    Game({}, {}, {}, <<>>, <<>>, "tes4", FALSE, {}) }

InitResort ==
  /\ game \in ResortGames
  /\ SortCalled
  /\ resolver = Idle
  /\ CacheIdle
  /\ EvaluatorIdle
  /\ DatabaseIdle

\* Sort is called again on the sorter whose first call returned or threw:
\* graph_ and pathsCache_ are as the first call left them.  The first call
\* and what it left are kept for reference.
SortAgain ==
  /\ pc \in {"returned", "threw"}
  /\ probe = Idle
  /\ probe' = [pc |-> "again", game |-> game, output |-> output,
               error |-> error, graph |-> graph]
  /\ game' \in ResortGames
  /\ pc' = "start"
  /\ output' = <<>>
  /\ error' = ""
  /\ errorGroup' = ""
  /\ groupPluginsToIgnore' = <<>>
  /\ acyclicEdgePairs' = <<>>
  /\ UNCHANGED <<vertices, edges, pathsCache>>
  /\ UNCHANGED <<resolver, cacheVars, evalVars, dbVars>>

NextResort ==
  \/ SortAddPluginVertices
  \/ SortAddSpecificEdges
  \/ SortAddHardcodedPluginEdges
  \/ SortAddGroupEdges
  \/ SortAddOverlapEdges
  \/ SortAddTieBreakEdges
  \/ SortFinish
  \/ SortAgain

SpecResort == InitResort /\ [][NextResort]_vars

-----------------------------------------------------------------------------
(* Calls of getCrc while the files change.                                 *)

\* The files whose CRC is asked for.
CrcFiles == {x_esp, X_ESP, b_esp, LOOT}

\* The files there are: x.esp is absent, present, present and empty, or
\* ghosted; the host executable is empty or not.
CrcDirectories ==
  { {}, {x_esp}, {x_esp, Emptied(x_esp)}, {x_esp \o dot_ghost},
    {Emptied(LOOT)}, {x_esp, Emptied(LOOT)} }

InitCrc ==
  /\ SortIdle
  /\ resolver = Idle
  /\ threads = Idle
  /\ history = Idle
  /\ evaluator = Idle
  /\ database = Idle
  /\ probe = Idle
  /\ cache \in {NewCache, LoadedCache}
  /\ dataFiles \in CrcDirectories

\* A predicate asks for the CRC of a file.  Kept for reference: the file,
\* the CRC returned, the calls made, the stored CRCs and what GetCachedCrc
\* gave before the call, and whether the call before this one was for the
\* same file and returned 0.
CallGetCrc(file) ==
  LET r == getCrc(cache, dataFiles, file)
  IN /\ cache' = r.cache
     /\ probe' = [pc |-> "getCrc", file |-> file, value |-> r.value,
                  calls |-> r.calls, crcs |-> cache.crcs,
                  stored |-> GetCachedCrc(cache, file),
                  again |-> /\ probe.pc = "getCrc"
                            /\ probe.file = file
                            /\ probe.value = 0]
     /\ UNCHANGED <<dataFiles, evaluator, sortVars, resolver, threads, history, dbVars>>

\* A file appears, disappears, is ghosted or emptied.
ChangeCrcFiles ==
  /\ dataFiles' \in CrcDirectories \ {dataFiles}
  /\ UNCHANGED <<cache, evaluator, sortVars, resolver, threads, history, dbVars, probe>>

NextCrc ==
  \/ \E file \in CrcFiles : CallGetCrc(file)
  \/ ChangeCrcFiles

SpecCrc == InitCrc /\ [][NextCrc]_vars

-----------------------------------------------------------------------------
(* ApiDatabase::LoadLists.                                                 *)

\* A path given to LoadLists: whether it is non-empty, whether the file
\* exists, and the document MetadataList::Load reads from it (none when
\* Load throws).
Path(given, exists, content) == [given |-> given, exists |-> exists, content |-> content]

NoPath == Path(FALSE, FALSE, <<>>)

MissingFile == Path(TRUE, FALSE, <<>>)

MalformedFile == Path(TRUE, TRUE, <<>>)

FileWith(list) == Path(TRUE, TRUE, <<list>>)

\* A MetadataList as constructed.
EmptyList == MetadataList({}, <<>>, <<>>)

\* The temporary list after the first part of LoadLists for one path: what
\* was thrown, and the list.
LoadTemp(path) ==
  IF ~path.given THEN [threw |-> "", list |-> EmptyList]
  ELSE IF ~path.exists THEN [threw |-> "FileAccessError", list |-> EmptyList]
  ELSE IF path.content = <<>> THEN [threw |-> "LoadError", list |-> EmptyList]
  ELSE [threw |-> "", list |-> path.content[1]]

\* LoadLists assigning the masterlist as soon as it is loaded (a mutant).
LoadLists_AssignEarly(masterlist, userlist, masterlistPath, userlistPath) ==
  LET temp == LoadTemp(masterlistPath)
      userTemp == LoadTemp(userlistPath)
  IN IF temp.threw # ""
     THEN [threw |-> temp.threw, masterlist |-> masterlist, userlist |-> userlist]
     ELSE IF userTemp.threw # ""
     THEN [threw |-> userTemp.threw, masterlist |-> temp.list, userlist |-> userlist]
     ELSE [threw |-> "", masterlist |-> temp.list, userlist |-> userTemp.list]

\* ApiDatabase::LoadLists: what it threw, and the two documents of the
\* database afterwards.
LoadLists(masterlist, userlist, masterlistPath, userlistPath) ==
  LET temp == LoadTemp(masterlistPath)
      userTemp == LoadTemp(userlistPath)
  IN IF temp.threw # ""
     THEN [threw |-> temp.threw, masterlist |-> masterlist, userlist |-> userlist]
     ELSE IF userTemp.threw # ""
     THEN [threw |-> userTemp.threw, masterlist |-> masterlist, userlist |-> userlist]
     ELSE [threw |-> "", masterlist |-> temp.list, userlist |-> userTemp.list]

\* The documents the database can hold before the call, and those of the
\* files.
HeldLists ==
  { EmptyList,
    MetadataList({Group("mid", {})}, <<TaggedEntry(x_esp)>>, <<>>),
    MetadataList({}, <<PluginMetadata(b_esp)>>, <<MessageEntry(x_regex)>>) }

FileLists ==
  { MetadataList({Group("mid", {"late"})}, <<MessageEntry(X_ESP)>>, <<>>),
    MetadataList({}, <<>>, <<TaggedEntry(x_regex)>>) }

ListPaths == {NoPath, MissingFile, MalformedFile} \cup {FileWith(list) : list \in FileLists}

InitLoad ==
  /\ SortIdle
  /\ resolver = Idle
  /\ CacheIdle
  /\ EvaluatorIdle
  /\ probe = Idle
  /\ \E masterlist \in HeldLists : \E userlist \in HeldLists :
       database = [masterlist |-> masterlist, userlist |-> userlist, pc |-> "idle",
                   before |-> [masterlist |-> masterlist, userlist |-> userlist]]

\* A client has the two documents loaded.  Kept for reference: the paths
\* and the exception.
CallLoadLists(masterlistPath, userlistPath) ==
  LET r == LoadLists(database.masterlist, database.userlist, masterlistPath, userlistPath)
  IN /\ database.pc = "idle"
     /\ database' = [masterlist |-> r.masterlist, userlist |-> r.userlist,
                     pc |-> IF r.threw # "" THEN "threw" ELSE "returned",
                     before |-> [masterlist |-> database.masterlist,
                                 userlist |-> database.userlist]]
     /\ probe' = [pc |-> "LoadLists", masterlistPath |-> masterlistPath,
                  userlistPath |-> userlistPath, threw |-> r.threw]
     /\ UNCHANGED <<cacheVars, evalVars, sortVars, resolver>>

NextLoad ==
  \E masterlistPath, userlistPath \in ListPaths : CallLoadLists(masterlistPath, userlistPath)

SpecLoad == InitLoad /\ [][NextLoad]_vars

-----------------------------------------------------------------------------
(* Two threads evaluate conditions on one evaluator while the game's files *)
(* change.  evaluate takes the cache's mutex inside GetCachedCondition and *)
(* inside CacheCondition only, so a call is three steps: the lookup, the   *)
(* parse (which reads the files), and the store and return.                *)

EvalThreads == {1, 2}

InitConcurrent ==
  /\ SortIdle
  /\ resolver = Idle
  /\ history = Idle
  /\ DatabaseIdle
  /\ cache = NewCache
  /\ dataFiles \in DataDirectories
  /\ evaluator = [ev |-> ConditionEvaluator(TRUE, TRUE), pc |-> "idle"]
  /\ threads = [t \in EvalThreads |-> [pc |-> "idle", condition |-> <<>>, value |-> FALSE]]

\* evaluate, lines 56-66: the empty condition is true; a cached value is
\* returned; otherwise the thread goes on to parse.
EvaluateLookup(t, condition) ==
  LET cachedValue == GetCachedCondition(cache, condition)
  IN /\ threads[t].pc = "idle"
     /\ threads' = [threads EXCEPT ![t] =
          [pc |-> IF condition = <<>> \/ cachedValue[2] THEN "returned" ELSE "missed",
           condition |-> condition,
           value |-> IF condition = <<>> THEN TRUE ELSE cachedValue[1]]]
     /\ UNCHANGED <<cache, evalVars, sortVars, resolver, history, dbVars, probe>>

\* evaluate, line 68: parseCondition with the files as they are now.
EvaluateParse(t) ==
  LET p == parseCondition(evaluator.ev, cache, dataFiles, threads[t].condition)
  IN /\ threads[t].pc = "missed"
     /\ threads' = [threads EXCEPT ![t].pc = IF p.threw THEN "threw" ELSE "parsed",
                                   ![t].value = p.value]
     /\ UNCHANGED <<cache, evalVars, sortVars, resolver, history, dbVars, probe>>

\* evaluate, lines 70-72: CacheCondition, and the parsed value is returned.
EvaluateStore(t) ==
  /\ threads[t].pc = "parsed"
  /\ cache' = CacheCondition(cache, threads[t].condition, threads[t].value)
  /\ threads' = [threads EXCEPT ![t].pc = "returned"]
  /\ UNCHANGED <<evalVars, sortVars, resolver, history, dbVars, probe>>

NextConcurrent ==
  \/ \E t \in EvalThreads : \E condition \in Conditions : EvaluateLookup(t, condition)
  \/ \E t \in EvalThreads : EvaluateParse(t)
  \/ \E t \in EvalThreads : EvaluateStore(t)
  \/ ChangeGameState

SpecConcurrent == InitConcurrent /\ [][NextConcurrent]_vars

-----------------------------------------------------------------------------
(* What the properties below speak of.                                     *)

Returned == pc = "returned"

PluginNames == {p.name : p \in game.plugins}

VertexIds == 1..Len(vertices)

\* The position of a plugin in the returned sequence.
OutputIndex(name) == CHOOSE i \in 1..Len(output) : output[i] = name

\* u is before v in the returned sequence (u, v vertices).
Precedes(u, v) == OutputIndex(vertices[u].name) < OutputIndex(vertices[v].name)

\* The files a vertex names in one of its five lists.
NamedFiles(v, kind) == SeqToSet(vertices[v][kind])

AllNamedFiles(v) == UNION {NamedFiles(v, kind) : kind \in FileKinds}

\* The vertices reachable from the vertices `from` along one or more of the
\* edges E (a set of edges).
RECURSIVE ReachableVertices(_, _, _)
ReachableVertices(E, from, seen) ==
  LET next == {e.to : e \in {x \in E : x.from \in from}} \ seen
  IN IF next = {} THEN seen ELSE ReachableVertices(E, next, seen \cup next)

HasPath(E, u, v) == v \in ReachableVertices(E, {u}, {})

EdgeSet == {edges[i] : i \in 1..Len(edges)}

\* The edges the phases before the group phase add.
PreGroupEdges ==
  {e \in EdgeSet : e.type \notin {"group", "overlap", "tieBreak"}}

HasEdgeOfType(u, v, type) ==
  [from |-> u, to |-> v, type |-> type] \in EdgeSet

\* The positions of Sort at which the group phase is over.
AfterGroupPhase == pc \in {"group", "overlap", "tieBreak", "returned"}

\* The merged groups of the two documents, and the groups a group loads
\* after, directly or not.
AllGroups == GetGroups(game.masterlistGroups, game.userGroups, TRUE)

AfterClosure(groupName) == ReachableGroups(AllGroups, {groupName}, {})

\* The groups strictly between two groups on the after-paths from `last`
\* back to `first`.
GroupsBetween(first, last) ==
  {gn \in AfterClosure(last) : first \in AfterClosure(gn)}

-----------------------------------------------------------------------------
(* C1: when Sort returns, the returned sequence holds the name of every    *)
(* cached plugin exactly once (so it is empty iff no plugin is loaded) and *)
(* every edge of the final graph goes from an earlier to a later plugin.   *)
C1_TopologicalOrder ==
  Returned =>
    /\ Len(output) = Cardinality(game.plugins)
    /\ {output[i] : i \in 1..Len(output)} = PluginNames
    /\ (output = <<>>) <=> (game.plugins = {})
    /\ \A i \in 1..Len(edges) : Precedes(edges[i].from, edges[i].to)

C1_Witness ==
  /\ Returned
  /\ Len(output) = 3
  /\ \E i \in 1..Len(edges) : edges[i].type = "masterlistLoadAfter"

(* C2: when Sort returns, every two plugins adjacent in the returned       *)
(* sequence are joined by a direct edge from the first to the second.      *)
C2_Hamiltonian ==
  Returned =>
    \A i \in 1..(Len(output) - 1) :
      HasEdge(edges, GetVertexByName(vertices, output[i]),
                     GetVertexByName(vertices, output[i + 1]))

C2_Witness ==
  /\ Returned
  /\ Len(output) = 3
  /\ \E i \in 1..Len(edges) : edges[i].type = "tieBreak"
  /\ \E i \in 1..Len(edges) : edges[i].type = "userLoadAfter"

(* C3 (as claimed): for fixed inputs the runs of Sort that return, return  *)
(* the same sequence, whatever the order in which the cache's set          *)
(* enumerates the plugins (the after-group plugins iterated the same way   *)
(* in every run).                                                          *)
C3_Determinism ==
  Returned =>
    \A hashOrder \in {"ascending", "descending"} :
      LET returning == {order \in Enumerations(game.plugins) :
                          Sort(game, order, hashOrder).error = ""}
      IN Cardinality({Sort(game, order, hashOrder).output :
                        order \in returning}) <= 1

(* C4 (as claimed): the vertices are inserted in an order fixed by the     *)
(* plugin names: whatever the enumeration of the cache's set, the vertex   *)
(* list is the same.                                                       *)
C4_StableVertexOrder ==
  pc # "start" =>
    \A order \in Enumerations(game.plugins) :
      [i \in 1..Len(order) |-> order[i].name] =
        [i \in 1..Len(vertices) |-> vertices[i].name]

(* C5: when Sort returns, every plugin with the master flag is before      *)
(* every plugin without it, and a masterFlag edge joins every such pair.   *)
C5_MastersFirst ==
  Returned =>
    \A u, v \in VertexIds :
      (vertices[u].isMaster /\ ~vertices[v].isMaster) =>
        /\ Precedes(u, v)
        /\ HasEdgeOfType(u, v, "masterFlag")

C5_Witness ==
  /\ Returned
  /\ \E u, v \in VertexIds :
       /\ vertices[u].isMaster /\ ~vertices[v].isMaster
       /\ v < u
       /\ vertices[u].name \in NamedFiles(v, "masters")

\* The game with every plugin's masters, requirements and load-after files
\* removed, and the enumeration of its plugins in the order of the vertices.
WithoutNamedFiles(plugin) ==
  [plugin EXCEPT !.masters = <<>>, !.masterlistRequirements = <<>>,
                 !.userRequirements = <<>>, !.masterlistLoadAfter = <<>>,
                 !.userLoadAfter = <<>>]

GameWithoutNamedFiles ==
  [game EXCEPT !.plugins = {WithoutNamedFiles(pl) : pl \in game.plugins}]

VertexOrderWithoutNamedFiles ==
  [i \in 1..Len(vertices) |->
     CHOOSE pl \in GameWithoutNamedFiles.plugins : pl.name = vertices[i].name]

\* The list an edge type is read from.
FileKindOf(type) ==
  CASE type = "master" -> "masters"
    [] type = "masterlistRequirement" -> "masterlistRequirements"
    [] type = "userRequirement" -> "userRequirements"
    [] type = "masterlistLoadAfter" -> "masterlistLoadAfter"
    [] type = "userLoadAfter" -> "userLoadAfter"

NamedFileTypes == {"master", "masterlistRequirement", "userRequirement",
                   "masterlistLoadAfter", "userLoadAfter"}

(* C6: when Sort returns, every plugin is after each file it names as a    *)
(* master, a requirement or a load-after file that is a loaded plugin, the *)
(* names compared case-insensitively.  A file that is not loaded adds no   *)
(* edge: every edge of these types comes from a loaded plugin the target   *)
(* names; and it causes no error: when no named file is loaded, Sort ends  *)
(* as it does for the same plugins naming no files.                        *)
C6_NamedFilesFirst ==
  /\ Returned =>
       \A v \in VertexIds : \A file \in AllNamedFiles(v) :
         \A u \in VertexIds :
           ToLower(vertices[u].name) = ToLower(file) => Precedes(u, v)
  /\ \A e \in EdgeSet :
       e.type \in NamedFileTypes =>
         \E file \in NamedFiles(e.to, FileKindOf(e.type)) :
           ToLower(vertices[e.from].name) = ToLower(file)
  /\ ( /\ pc \in {"returned", "threw"}
       /\ \A v \in VertexIds : \A file \in AllNamedFiles(v) :
            \A u \in VertexIds : ToLower(vertices[u].name) # ToLower(file) )
       => \E hashOrder \in {"ascending", "descending"} :
            Sort(GameWithoutNamedFiles, VertexOrderWithoutNamedFiles, hashOrder)
              = [output |-> output, error |-> error]

\* b.esp names D.ESP, d.esp is loaded, and without the edge the tie-break
\* would put b.esp first.
C6_Witness ==
  /\ Returned
  /\ \E u, v \in VertexIds :
       /\ vertices[u].name = d_esp
       /\ vertices[v].name = b_esp
       /\ D_ESP \in AllNamedFiles(v)
       /\ Precedes(u, v)

\* Whether a vertex's file is on disk, under its name or ghosted.
OnDisk(v) == Exists(game, GraphPluginPath(game, vertices[v].name))

\* Whether the k-th implicitly active plugin is Skyrim's Update.esm.
IsSkyrimUpdateEsm(k) ==
  /\ game.gameType = "tes5"
  /\ equivalent(game.implicitlyActivePlugins[k], update_esm)

\* Whether a vertex is one of the first k - 1 implicitly active plugins.
IsEarlierEntry(v, k) ==
  \E j \in 1..(k - 1) :
    equivalent(game.implicitlyActivePlugins[j], vertices[v].name)

(* C7 (as claimed): when Sort returns, each implicitly active plugin h     *)
(* that is loaded, other than Skyrim's Update.esm, is before every loaded  *)
(* on-disk plugin that is neither h nor an earlier entry of the list.      *)
C7_HardcodedFirst ==
  Returned =>
    \A k \in 1..Len(game.implicitlyActivePlugins) :
      LET h == GetVertexByName(vertices, game.implicitlyActivePlugins[k]) IN
      (h # NoVertex /\ ~IsSkyrimUpdateEsm(k)) =>
        \A v \in VertexIds :
          (OnDisk(v) /\ v # h /\ ~IsEarlierEntry(v, k)) => Precedes(h, v)

(* C7 (amended): the same for each implicitly active plugin h that is      *)
(* loaded and whose file is in the data directory under the name the list  *)
(* gives (a plugin that is only there ghosted, or not at all, is skipped). *)
C7_HardcodedFirstOnDisk ==
  Returned =>
    \A k \in 1..Len(game.implicitlyActivePlugins) :
      LET h == GetVertexByName(vertices, game.implicitlyActivePlugins[k]) IN
      ( /\ h # NoVertex
        /\ ~IsSkyrimUpdateEsm(k)
        /\ Exists(game, game.implicitlyActivePlugins[k]) ) =>
        \A v \in VertexIds :
          (OnDisk(v) /\ v # h /\ ~IsEarlierEntry(v, k)) => Precedes(h, v)

\* Update.esm is implicitly active (not for Skyrim) and is put before a
\* ghosted plugin the tie-break would put first.
C7_Witness ==
  /\ Returned
  /\ game.gameType = "tes4"
  /\ \E h, v \in VertexIds :
       /\ vertices[h].name = Update_esm
       /\ Update_esm \in SeqToSet(game.implicitlyActivePlugins)
       /\ ~Exists(game, vertices[v].name) /\ OnDisk(v)
       /\ ComparePlugins(vertices[v], vertices[h]) < 0
       /\ HasEdgeOfType(h, v, "hardcoded")
       /\ Precedes(h, v)

(* C8 (as claimed): for Skyrim no hardcoded edge leaves Update.esm.        *)
C8_NoUpdateEsmEdges ==
  game.gameType = "tes5" =>
    \A e \in EdgeSet :
      e.type = "hardcoded" => ~equivalent(vertices[e.from].name, update_esm)

\* The edge p -> v is a group relation: p's group is one of the groups v's
\* group loads after, directly or not.
GroupRelation(p, v) == vertices[p].group \in AfterClosure(vertices[v].group)

\* The edge p -> v would close a cycle with the edges present when the group
\* phase starts.
ClosesCycle(p, v) == HasPath(PreGroupEdges, v, p)

Muted(p, v) ==
  shouldIgnoreGroupEdge(vertices[p], vertices[v], groupPluginsToIgnore)

(* C9: once the group phase is over, for all loaded plugins p and v with   *)
(* p's group in the after-closure of v's group: if p -> v closes no cycle  *)
(* with the edges of the earlier phases and the ignore map does not mute   *)
(* the pair, the graph has a path from p to v, and p is before v when Sort *)
(* returns.                                                                *)
C9_GroupOrdering ==
  AfterGroupPhase =>
    \A p, v \in VertexIds :
      (GroupRelation(p, v) /\ ~ClosesCycle(p, v) /\ ~Muted(p, v)) =>
        /\ HasPath(EdgeSet, p, v)
        /\ Returned => Precedes(p, v)

\* A group edge was added against the tie-break order while another pair is
\* muted, and Sort returned.
C9_Witness ==
  /\ Returned
  /\ \E p, v \in VertexIds :
       /\ GroupRelation(p, v) /\ ~ClosesCycle(p, v) /\ ~Muted(p, v)
       /\ HasEdgeOfType(p, v, "group")
       /\ ComparePlugins(vertices[v], vertices[p]) < 0
  /\ \E p, v \in VertexIds : GroupRelation(p, v) /\ Muted(p, v)

\* No group edge joins u and v, in either direction.
NoGroupEdge(u, v) ==
  ~HasEdgeOfType(u, v, "group") /\ ~HasEdgeOfType(v, u, "group")

\* What C10 promises for a group relation parent -> v that closes a cycle, one
\* of the two plugins (P) being in the default group: no group edge joins the
\* two, P is in the ignore set of every group between their groups, and no
\* group edge joins P and a plugin of one of these groups.
IgnoredBetween(parent, v) ==
  LET P == IF vertices[v].group = DefaultGroup THEN v ELSE parent
      between == GroupsBetween(vertices[parent].group, vertices[v].group)
  IN /\ NoGroupEdge(parent, v)
     /\ \A gn \in between :
          shouldIgnorePlugin(gn, vertices[P].name, groupPluginsToIgnore)
     /\ \A r \in VertexIds : vertices[r].group \in between => NoGroupEdge(P, r)

InDefaultGroup(parent, v) ==
  vertices[parent].group = DefaultGroup \/ vertices[v].group = DefaultGroup

(* C10 (as claimed): once the group phase is over, for every group         *)
(* relation parent -> v between a plugin of the default group and a plugin *)
(* of another group that closes a cycle, no group edge joins them, the     *)
(* default-group plugin is in the ignore set of every group between the    *)
(* two groups, and no group edge joins it to a plugin of these groups.     *)
C10_GroupCycleFallback ==
  AfterGroupPhase =>
    \A parent, v \in VertexIds :
      (GroupRelation(parent, v) /\ InDefaultGroup(parent, v)
         /\ ClosesCycle(parent, v))
        => IgnoredBetween(parent, v)

(* C10 (amended): the same, unless parent is not a master and v is one: the *)
(* scan then drops the edge and records nothing.                           *)
C10_GroupCycleFallbackButMaster ==
  AfterGroupPhase =>
    \A parent, v \in VertexIds :
      (GroupRelation(parent, v) /\ InDefaultGroup(parent, v)
         /\ ClosesCycle(parent, v)
         /\ ~(~vertices[parent].isMaster /\ vertices[v].isMaster))
        => IgnoredBetween(parent, v)

\* A cycle-closing relation with a group in between, a plugin of which was
\* queued for a group edge with the default-group plugin, and Sort returned.
C10_Witness ==
  /\ Returned
  /\ \E parent, v, r \in VertexIds :
       /\ GroupRelation(parent, v) /\ InDefaultGroup(parent, v)
       /\ ClosesCycle(parent, v)
       /\ ~(~vertices[parent].isMaster /\ vertices[v].isMaster)
       /\ vertices[r].group \in
            GroupsBetween(vertices[parent].group, vertices[v].group)
       /\ \E i \in 1..Len(acyclicEdgePairs) :
            acyclicEdgePairs[i] \in
              {<<parent, r>>, <<r, parent>>, <<v, r>>, <<r, v>>}
            /\ Muted(acyclicEdgePairs[i][1], acyclicEdgePairs[i][2])

-----------------------------------------------------------------------------
\* Nothing but the tie-break orders the loaded plugins: one master flag, no
\* named files, one group, no overlapping override records, no implicitly
\* active plugin.
Unconstrained ==
  /\ \A u, v \in VertexIds :
       /\ vertices[u].isMaster = vertices[v].isMaster
       /\ vertices[u].group = vertices[v].group
       /\ u # v => vertices[u].formIDs \cap vertices[v].formIDs = {}
  /\ \A v \in VertexIds : AllNamedFiles(v) = {}
  /\ game.implicitlyActivePlugins = <<>>

\* The order C11 describes, on two vertices: a load order position before
\* none, the lower position first, then the case-folded names without their
\* last four characters, then the case-folded last four characters.
BasenameOf(name) == ToLower(SubSeq(name, 1, Len(name) - 4))

ExtensionOf(name) == ToLower(SubSeq(name, Len(name) - 3, Len(name)))

TieBreakBefore(p, q) ==
  LET ip == p.loadOrderIndex
      iq == q.loadOrderIndex
  IN IF ip >= 0 /\ iq >= 0 THEN ip < iq
     ELSE IF ip >= 0 THEN TRUE
     ELSE IF iq >= 0 THEN FALSE
     ELSE \/ CompareCodes(BasenameOf(p.name), BasenameOf(q.name)) < 0
          \/ /\ BasenameOf(p.name) = BasenameOf(q.name)
             /\ CompareCodes(ExtensionOf(p.name), ExtensionOf(q.name)) < 0

(* C11: when Sort returns and nothing but the tie-break orders the loaded  *)
(* plugins, the returned sequence is in the tie-break order: plugins with  *)
(* a load order position first, by position, then the others by            *)
(* case-folded basename and then by case-folded extension.                 *)
C11_StableTieBreak ==
  (Returned /\ Unconstrained) =>
    \A i, j \in 1..Len(output) :
      i < j => TieBreakBefore(vertices[GetVertexByName(vertices, output[i])],
                              vertices[GetVertexByName(vertices, output[j])])

\* D.ESP has a load order position and is first, b.esm is before b.esp, and
\* the vertices were inserted in another order.
C11_Witness ==
  /\ Returned /\ Unconstrained
  /\ output = <<D_ESP, b_esm, b_esp>>
  /\ vertices[1].name = b_esp /\ vertices[2].name = b_esm

-----------------------------------------------------------------------------
(* The groups of a call of GetTransitiveAfterGroups.                       *)

ResolverDone == resolver.pc = "done"

\* There are k >= 1 after-edges leading from one group to another.
AfterPath(groups, from, to) ==
  \E k \in 1..Cardinality(groups) :
    \E path \in [0..k -> GroupNames(groups)] :
      /\ path[0] = from
      /\ path[k] = to
      /\ \A i \in 1..k : path[i] \in FindGroup(groups, path[i - 1]).afterGroups

AllAfterGroupsDefined(groups) ==
  \A gr \in groups : gr.afterGroups \subseteq GroupNames(groups)

HasGroupCycle(groups) ==
  \E gr \in groups : gr.name \in gr.afterGroups \/ AfterPath(groups, gr.name, gr.name)

(* C12: for a set of groups without a cycle in which every after-group is  *)
(* defined, GetTransitiveAfterGroups returns a map from every group to the *)
(* groups that one or more after-edges lead to from it.                    *)
C12_TransitiveClosure ==
  ( /\ ResolverDone
    /\ AllAfterGroupsDefined(resolver.groups)
    /\ ~HasGroupCycle(resolver.groups) ) =>
      /\ resolver.result.err = ""
      /\ DOMAIN resolver.result.map = GroupNames(resolver.groups)
      /\ \A n \in GroupNames(resolver.groups) :
           resolver.result.map[n] =
             {m \in GroupNames(resolver.groups) : AfterPath(resolver.groups, n, m)}

\* The groups a; b after a; c after b.
C12_Witness ==
  /\ ResolverDone
  /\ resolver.groups = {Group("a", {}), Group("b", {"a"}), Group("c", {"b"})}
  /\ resolver.result.err = ""
  /\ resolver.result.map["a"] = {}
  /\ resolver.result.map["b"] = {"a"}
  /\ resolver.result.map["c"] = {"a", "b"}

\* What C13 says of the exception: GetTransitiveAfterGroups threw a
\* CyclicInteractionError and returned no map; no group is twice in the
\* cycle it carries, every entry is a defined group followed (the last by
\* the first) by one of its after-groups, and every edge is a LoadAfter edge.
ThrewGroupCycle ==
  LET cycle == resolver.result.cycle
      next(i) == cycle[(i % Len(cycle)) + 1]
  IN /\ resolver.result.err = "CyclicInteractionError"
     /\ resolver.result.map = <<>>
     /\ Len(cycle) >= 1
     /\ \A i, j \in 1..Len(cycle) : i # j => cycle[i].name # cycle[j].name
     /\ \A i \in 1..Len(cycle) :
          /\ cycle[i].name \in GroupNames(resolver.groups)
          /\ next(i).name \in FindGroup(resolver.groups, cycle[i].name).afterGroups
          /\ cycle[i].typeOfEdgeToNextVertex = "LoadAfter"

(* C13 (as claimed): when the after-groups form a cycle,                   *)
(* GetTransitiveAfterGroups throws a CyclicInteractionError whose cycle    *)
(* holds each of its groups once, each followed by one of its after-groups *)
(* over a LoadAfter edge.                                                  *)
C13_GroupCycle ==
  (ResolverDone /\ HasGroupCycle(resolver.groups)) => ThrewGroupCycle

(* C13 (amended): the same when, besides, every after-group is defined;    *)
(* with an after-group that is not defined the exception may be the        *)
(* UndefinedGroupError.                                                    *)
C13_GroupCycleAllDefined ==
  ( /\ ResolverDone
    /\ HasGroupCycle(resolver.groups)
    /\ AllAfterGroupsDefined(resolver.groups) ) => ThrewGroupCycle

\* The groups a after b; b after c; c after b, the traversal starting at a:
\* the cycle reported is b, c.
C13_Witness ==
  /\ ResolverDone
  /\ resolver.groups = {Group("a", {"b"}), Group("b", {"c"}), Group("c", {"b"})}
  /\ resolver.result.err = "CyclicInteractionError"
  /\ resolver.result.cycle = <<CycleVertex("b"), CycleVertex("c")>>

-----------------------------------------------------------------------------
(* Groups that are not defined.                                            *)

\* The after-groups of a set of groups that are not defined.
UndefinedAfterGroupsOf(groups) ==
  UNION {gr.afterGroups : gr \in groups} \ GroupNames(groups)

\* A call of Sort that is past AddPluginVertices.
SortStarted == pc \notin {"idle", "start"}

\* The groups of the loaded plugins that are not defined.
UndefinedPluginGroups ==
  {pl.group : pl \in game.plugins} \ GroupNames(AllGroups)

\* Sort threw, returned nothing and added no edge.
SortThrew == pc = "threw" /\ output = <<>> /\ edges = <<>>

(* C14 (as claimed): GetTransitiveAfterGroups throws an                    *)
(* UndefinedGroupError naming an after-group that is not defined whenever  *)
(* there is one, and returns no map; Sort throws an UndefinedGroupError    *)
(* naming the group of a loaded plugin that is not defined whenever there  *)
(* is one, returns nothing and has added no edge.                          *)
C14_UndefinedGroup ==
  /\ (ResolverDone /\ ~AllAfterGroupsDefined(resolver.groups)) =>
       /\ resolver.result.err = "UndefinedGroupError"
       /\ resolver.result.group \in UndefinedAfterGroupsOf(resolver.groups)
       /\ resolver.result.map = <<>>
  /\ (SortStarted /\ UndefinedPluginGroups # {}) =>
       /\ SortThrew
       /\ error = "UndefinedGroupError"
       /\ errorGroup \in UndefinedPluginGroups

(* C14 (amended): the same of GetTransitiveAfterGroups when the            *)
(* after-groups form no cycle, and of Sort when the groups form no cycle   *)
(* and every after-group is defined.  In the other cases the call still    *)
(* ends with an exception, no map, no load order and no edge: for Sort a   *)
(* CyclicInteractionError when the groups form a cycle, and an             *)
(* UndefinedGroupError naming an after-group that is not defined when      *)
(* there is one.                                                           *)
C14_UndefinedGroupFirstDefect ==
  /\ (ResolverDone /\ ~AllAfterGroupsDefined(resolver.groups)) =>
       /\ resolver.result.err \in {"UndefinedGroupError", "CyclicInteractionError"}
       /\ resolver.result.map = <<>>
       /\ ~HasGroupCycle(resolver.groups) =>
            /\ resolver.result.err = "UndefinedGroupError"
            /\ resolver.result.group \in UndefinedAfterGroupsOf(resolver.groups)
  /\ (SortStarted /\ UndefinedPluginGroups # {}) =>
       /\ SortThrew
       /\ error \in {"UndefinedGroupError", "CyclicInteractionError"}
       /\ (AllAfterGroupsDefined(AllGroups) /\ ~HasGroupCycle(AllGroups)) =>
            /\ error = "UndefinedGroupError"
            /\ errorGroup \in UndefinedPluginGroups
       /\ (AllAfterGroupsDefined(AllGroups) /\ HasGroupCycle(AllGroups)) =>
            error = "CyclicInteractionError"
       /\ (~AllAfterGroupsDefined(AllGroups) /\ ~HasGroupCycle(AllGroups)) =>
            /\ error = "UndefinedGroupError"
            /\ errorGroup \in UndefinedAfterGroupsOf(AllGroups)

\* Sort threw for a plugin of the group "late", which no document defines,
\* after two vertices were added.
C14_Witness ==
  /\ SortThrew
  /\ error = "UndefinedGroupError"
  /\ errorGroup = "late"
  /\ Len(vertices) >= 2
  /\ AllAfterGroupsDefined(AllGroups) /\ ~HasGroupCycle(AllGroups)

-----------------------------------------------------------------------------
(* C15: the four maps of the GameCache are only touched under the mutex.   *)

HoldsMutex(t) == cache.mutex = t

\* A thread reads a map while another thread writes the same map.
ReaderWithWriter ==
  \E t \in CacheThreads : \E u \in CacheThreads \ {t} :
    /\ Accessing(t)
    /\ Accessing(u)
    /\ MapsRead(threads[t].op.name) \cap MapsWritten(threads[u].op.name) # {}

\* C15: every read and every write of the plugin, condition, CRC and
\* archive-path maps happens while the calling thread holds the cache mutex,
\* so that no thread reads a map while another thread writes it.
C15_MutexGuarded ==
  /\ \A t \in CacheThreads : Accessing(t) => HoldsMutex(t)
  /\ ~ReaderWithWriter

-----------------------------------------------------------------------------
(* C16: what GetCachedCondition returns after a sequence of calls.         *)

\* The CacheCondition calls for this condition string since the last
\* ClearCachedConditions, oldest first.
CachedSinceClear(condition) == SelectSeq(history.conditionLog, LAMBDA e : e[1] = condition)

\* C16: after any sequence of calls without a data race, GetCachedCondition(c)
\* returns (false, false) iff no CacheCondition(c, .) happened since the last
\* ClearCachedConditions, and otherwise (r, true) with r the result of the
\* first CacheCondition(c, .) since then, for exactly that string: a later
\* CacheCondition for a cached string leaves the stored result unchanged.
C16_ConditionCache ==
  ~history.raced =>
    \A c \in {cond_c, cond_C} :
      GetCachedCondition(cache, c) =
        IF CachedSinceClear(c) = <<>>
          THEN <<FALSE, FALSE>>
          ELSE <<CachedSinceClear(c)[1][2], TRUE>>

\* A thread got (true, true) for "c" after CacheCondition("c", true) and then
\* CacheCondition("c", false), while "C" was never cached.
C16_Witness ==
  /\ ~history.raced
  /\ history.conditionLog = <<<<cond_c, TRUE>>, <<cond_c, FALSE>>>>
  /\ GetCachedCondition(cache, cond_C) = <<FALSE, FALSE>>
  /\ \E t \in CacheThreads :
       /\ threads[t].pc = "idle"
       /\ threads[t].op = Op("GetCachedCondition", cond_c, FALSE, 0)
       /\ threads[t].ret = <<TRUE, TRUE>>

-----------------------------------------------------------------------------
(* C17: AddPlugin replaces the entry under the case-folded name.           *)

\* The names GetPlugin is asked for.
LookupNames == {d_esp, D_ESP, b_esp}

\* The thread returns from AddPlugin in this step, in a run without a data
\* race.
AddPluginReturns(t) ==
  /\ CacheReturn(t)
  /\ threads[t].op.name = "AddPlugin"
  /\ ~history.raced

\* The plugin that the thread's AddPlugin call was given.
AddedPlugin(t) == PluginObject(threads[t].op.key, threads[t].op.crc)

\* C17: after AddPlugin(p), GetPlugin(n) returns p for every name n that is
\* case-insensitively equal to p's name, no two plugins in the cache have
\* the same case-folded name, and GetPlugin returns what it returned before
\* for every other name.
C17_AddPluginReplaces ==
  [][\A t \in CacheThreads : AddPluginReturns(t) =>
       /\ \A n \in LookupNames :
            IF equivalent(n, AddedPlugin(t).name)
              THEN GetPlugin(cache', n) = AddedPlugin(t)
              ELSE GetPlugin(cache', n) = GetPlugin(cache, n)
       /\ \A p1 \in GetPlugins(cache') : \A p2 \in GetPlugins(cache') :
            equivalent(p1.name, p2.name) => p1 = p2]_vars

\* AddPlugin(D.ESP) has replaced the d.esp that was cached, next to b.esp.
C17_Witness ==
  /\ ~history.raced
  /\ history.replaced
  /\ GetPlugin(cache, d_esp) = PluginObject(D_ESP, 2)
  /\ GetPlugin(cache, b_esp) = PluginObject(b_esp, 1)
  /\ \E t \in CacheThreads :
       /\ threads[t].pc = "idle"
       /\ threads[t].op = Op("AddPlugin", D_ESP, FALSE, 2)

-----------------------------------------------------------------------------
(* C18: ClearCachedConditions clears conditions and CRCs, nothing else.    *)

\* The thread returns from ClearCachedConditions in this step, in a run
\* without a data race.
ClearCachedConditionsReturns(t) ==
  /\ CacheReturn(t)
  /\ threads[t].op.name = "ClearCachedConditions"
  /\ ~history.raced

\* C18: after ClearCachedConditions every GetCachedCondition is a miss and
\* every GetCachedCrc returns 0, and the plugin map and the archive-path set
\* are what they were before.
C18_ClearCachedConditions ==
  [][\A t \in CacheThreads : ClearCachedConditionsReturns(t) =>
       /\ \A c \in {cond_c, cond_C} : GetCachedCondition(cache', c) = <<FALSE, FALSE>>
       /\ \A f \in {file_f, file_F} : GetCachedCrc(cache', f) = 0
       /\ cache'.plugins = cache.plugins
       /\ GetPlugins(cache') = GetPlugins(cache)
       /\ GetArchivePaths(cache') = GetArchivePaths(cache)]_vars

\* ClearCachedConditions has dropped a condition and a CRC from a cache that
\* holds a plugin and an archive path.
C18_Witness ==
  /\ ~history.raced
  /\ history.cleared = 2
  /\ GetPlugins(cache) # {}
  /\ GetArchivePaths(cache) # {}
  /\ \E t \in CacheThreads :
       /\ threads[t].pc = "idle"
       /\ threads[t].op.name = "ClearCachedConditions"

-----------------------------------------------------------------------------
(* C19: evaluate is idempotent between clears of the condition cache.      *)

\* The evaluator has a GameCache and a LoadOrderHandler.
LiveEvaluator == ~shouldParseOnly(evaluator.ev)

\* The last evaluate call returned a value for a non-empty condition.
EvaluateReturned == evaluator.pc = "returned" /\ evaluator.condition # <<>>

-----------------------------------------------------------------------------
(* C20: parse-only mode.                                                   *)

\* The last evaluate call is over.
EvaluateDone == evaluator.pc \in {"returned", "threw"}

\* C20: an evaluator without GameCache or without LoadOrderHandler returns
\* true for the empty condition, returns false for every valid non-empty
\* condition, throws ConditionSyntaxError for an invalid one, and calls no
\* function of a cache.
C20_ParseOnly ==
  (~LiveEvaluator /\ EvaluateDone) =>
    /\ evaluator.condition = <<>> =>
         evaluator.pc = "returned" /\ evaluator.result.value
    /\ evaluator.condition \in ValidConditions =>
         evaluator.pc = "returned" /\ ~evaluator.result.value
    /\ evaluator.condition \in InvalidConditions => evaluator.pc = "threw"
    /\ evaluator.result.calls = {}

-----------------------------------------------------------------------------
(* C21: a ".." after a ".." is rejected by every predicate.                *)

\* The path that a predicate call hands to validatePath.
PathArgument(call) == IF call.fn = "regex" THEN getRegexParentPath(call.path) ELSE call.path

\* The components of a path without the "." components.
WithoutDots(path) == SelectSeq(PathComponents(path, <<>>), LAMBDA component : component # dot)

\* Once the "." components are dropped, a ".." follows a "..".
DotDotFollowsDotDot(path) ==
  \E i \in 1..(Len(WithoutDots(path)) - 1) :
    WithoutDots(path)[i] = dotdot /\ WithoutDots(path)[i + 1] = dotdot

PredicateCalled == evaluator.pc # "idle"

\* C21: a call of file, active, checksum, version or regex whose path (for
\* regex: the parent part) has a ".." following a ".." once the "."
\* components are dropped throws ConditionSyntaxError, and has touched
\* neither the filesystem nor the load order nor the cache, whether or not
\* the evaluator is in parse-only mode.
C21_PathSafety ==
  (PredicateCalled /\ DotDotFollowsDotDot(PathArgument(evaluator.call))) =>
    /\ evaluator.pc = "threw"
    /\ evaluator.result.calls = {}
    /\ cache = evaluator.before

\* checksum(".././..", ...) has thrown in an evaluator without a
\* LoadOrderHandler.
C21_Witness ==
  /\ evaluator.pc = "threw"
  /\ evaluator.ev = ConditionEvaluator(TRUE, FALSE)
  /\ evaluator.call.fn = "checksum"
  /\ evaluator.call.path = JoinPath(<<dotdot, dot, dotdot>>)
  /\ DotDotFollowsDotDot(evaluator.call.path)

-----------------------------------------------------------------------------
(* C22: version() on a file that does not exist.                           *)

\* The file that the call's path names is not there: it is not the host,
\* no loaded plugin has the path as its name, and the data directory has no
\* file with the name of the path's last component, ghosted or not.
FileMissing ==
  LET path == evaluator.call.path
      name == getRegexFilename(path)
  IN /\ path # LOOT
     /\ \A plugin \in GetPlugins(evaluator.before) : ~equivalent(plugin.name, path)
     /\ name \notin evaluator.files
     /\ (name \o dot_ghost) \notin evaluator.files

\* C22: version(path, v, op) on a file that does not exist returns true
\* when op is "!=", "<" or "<=" and false when op is "==", ">" or ">=",
\* whatever v is.
C22_VersionOfMissingFile ==
  (PredicateCalled /\ evaluator.call.fn = "version" /\ FileMissing
     /\ ~DotDotFollowsDotDot(evaluator.call.path)) =>
    /\ evaluator.pc = "returned"
    /\ evaluator.result.value = (evaluator.call.comparator \in {"!=", "<", "<="})

\* version("x.esp", 2, "<=") has returned true in a live evaluator when
\* the data directory has no x.esp.
C22_Witness ==
  /\ evaluator.pc = "returned"
  /\ ~shouldParseOnly(evaluator.ev)
  /\ evaluator.call = PredicateCall("version", x_esp, 2, "<=", 0)
  /\ FileMissing
  /\ evaluator.result.value

-----------------------------------------------------------------------------
(* C28: how far above the data directory an accepted path can lead.        *)

\* The number of components of the kind among the first n.
RECURSIVE CountComponents(_, _, _)
CountComponents(components, n, dotdots) ==
  IF n = 0 THEN 0
  ELSE CountComponents(components, n - 1, dotdots)
         + (IF (components[n] = dotdot) = dotdots THEN 1 ELSE 0)

\* At every prefix of the path, the ".." components are at most `slack`
\* more than the ordinary components ("." components do not count).
NeverAbove(path, slack) ==
  \A n \in 1..Len(WithoutDots(path)) :
    CountComponents(WithoutDots(path), n, TRUE)
      <= CountComponents(WithoutDots(path), n, FALSE) + slack

\* The predicate call returned, so validatePath accepted its path.
PathAccepted == evaluator.pc = "returned"

\* C28 as stated: at every prefix of a path that validatePath accepts, the
\* ".." components are no more than the ordinary components before them,
\* so the path does not lead above the data directory.
C28_NeverAboveDataDirectory ==
  PathAccepted => NeverAbove(PathArgument(evaluator.call), 0)

\* C28 amended: at every prefix of a path that validatePath accepts, the
\* ".." components are at most one more than the ordinary components, so
\* the path leads at most one level above the data directory.
C28_AtMostOneLevelAbove ==
  PathAccepted => NeverAbove(PathArgument(evaluator.call), 1)

\* file("../a/..") has been accepted: it leads one level above the data
\* directory, twice.
C28_Witness ==
  /\ PathAccepted
  /\ evaluator.call.fn = "file"
  /\ evaluator.call.path = JoinPath(<<dotdot, dir_a, dotdot>>)
  /\ ~NeverAbove(evaluator.call.path, 0)

-----------------------------------------------------------------------------
(* C23: what evaluateAll copies and what it filters.                       *)

\* evaluateAll has returned on an evaluator that is not parse-only.
EvaluateAllReturned == evaluator.pc = "returned" /\ ~shouldParseOnly(evaluator.ev)

\* The condition evaluated to true in the call.
HoldsInCall(condition) == evaluate(evaluator.ev, evaluator.before, evaluator.files, condition).value

ConditionHolds(entry) == HoldsInCall(entry.condition)

CollectionNames == {"loadAfter", "requirements", "incompatibilities", "tags"}

\* C23: in live mode the metadata evaluateAll returns has the name, the
\* group, the enabled flag and the locations of its input; its load-after
\* files, requirements, incompatibilities and tags are exactly the input's
\* entries whose condition evaluates to true, and its messages are those
\* of the input whose condition evaluates to true, in the input's order.
C23_EvaluateAllFilters ==
  EvaluateAllReturned =>
    LET in == evaluator.call
        out == evaluator.result.metadata
    IN /\ out.name = in.name
       /\ out.group = in.group
       /\ out.enabled = in.enabled
       /\ out.locations = in.locations
       /\ \A k \in CollectionNames :
            SeqToSet(out[k]) = {e \in SeqToSet(in[k]) : ConditionHolds(e)}
       /\ out.messages = SelectSeq(in.messages, ConditionHolds)

\* A call whose input has a group, two messages of which only the second
\* is kept, and a tag that is dropped.
C23_Witness ==
  /\ EvaluateAllReturned
  /\ evaluator.call.group # NoGroup
  /\ Len(evaluator.call.messages) = 2
  /\ evaluator.result.metadata.messages = <<evaluator.call.messages[2]>>
  /\ evaluator.call.tags # <<>>
  /\ evaluator.result.metadata.tags = <<>>

-----------------------------------------------------------------------------
(* C24: the cleaning data evaluateAll returns.                             *)

\* The CRC getCrc gives for the plugin of the call.
ActualCrc == getCrc(evaluator.before, evaluator.files, evaluator.call.name).value

HasActualCrc(info) == info.crc = ActualCrc

\* C24: in live mode the dirty and clean info evaluateAll returns for an
\* entry that is not a regex entry are the input's records whose CRC is
\* the plugin's CRC, and for a regex entry they are the input's records.
C24_CleaningDataFilter ==
  EvaluateAllReturned =>
    LET in == evaluator.call
        out == evaluator.result.metadata
    IN IF IsRegexPlugin(in)
         THEN out.dirtyInfo = in.dirtyInfo /\ out.cleanInfo = in.cleanInfo
         ELSE /\ out.dirtyInfo = SelectSeq(in.dirtyInfo, HasActualCrc)
              /\ out.cleanInfo = SelectSeq(in.cleanInfo, HasActualCrc)

-----------------------------------------------------------------------------
(* C25: what GetPluginMetadata returns.                                    *)

QueryReturned(fn) == database.pc = "returned" /\ database.call.fn = fn

DocumentsKept ==
  /\ database.masterlist = database.before.masterlist
  /\ database.userlist = database.before.userlist

\* The metadata before the evaluation of the conditions, as the claim
\* words it.
MasterlistEntry == FindPlugin(database.before.masterlist, database.call.plugin)

UserlistEntry == FindPlugin(database.before.userlist, database.call.plugin)

ExpectedMetadata ==
  IF ~database.call.includeUserMetadata \/ UserlistEntry = <<>> THEN MasterlistEntry
  ELSE IF MasterlistEntry = <<>> THEN UserlistEntry
  ELSE <<MergeMetadata(MasterlistEntry[1], UserlistEntry[1])>>

\* C25: GetPluginMetadata returns nothing iff the masterlist has no entry
\* for the name and the userlist is not asked or has none; otherwise it
\* returns the masterlist's entry alone (userlist not asked, or without an
\* entry), the userlist's entry alone, or the two merged, with the
\* conditions evaluated last and only when asked; the documents are as
\* they were.
C25_GetPluginMetadata ==
  QueryReturned("GetPluginMetadata") =>
    /\ DocumentsKept
    /\ (database.result.metadata = <<>>) <=> (ExpectedMetadata = <<>>)
    /\ (ExpectedMetadata = <<>>) <=>
         (MasterlistEntry = <<>> /\ (~database.call.includeUserMetadata \/ UserlistEntry = <<>>))
    /\ ExpectedMetadata # <<>> =>
         database.result.metadata =
           IF database.call.evaluateConditions
           THEN <<evaluateAll(evaluator.ev, NewCache, dataFiles, ExpectedMetadata[1]).metadata>>
           ELSE ExpectedMetadata

\* Both documents have the plugin, the merged metadata differs from both
\* entries, and the evaluation has dropped a message.
C25_Witness ==
  /\ QueryReturned("GetPluginMetadata")
  /\ database.call.includeUserMetadata
  /\ database.call.evaluateConditions
  /\ MasterlistEntry # <<>>
  /\ UserlistEntry # <<>>
  /\ ExpectedMetadata \notin {MasterlistEntry, UserlistEntry}
  /\ Len(database.result.metadata[1].messages) < Len(ExpectedMetadata[1].messages)

-----------------------------------------------------------------------------
(* C26: what GetGroups returns.                                            *)

\* The after-groups a document gives a group (none when it does not define
\* the group).
AfterGroupsIn(groups, name) == UNION {gr.afterGroups : gr \in {g \in groups : g.name = name}}

\* The groups of the userlist that the query looks at.
UserlistGroupsAsked == IF database.call.includeUserMetadata THEN database.before.userlist.groups ELSE {}

\* C26: GetGroups returns one group for each name that the masterlist or
\* (when asked) the userlist defines and for the default group, and no
\* other; the after-groups of each are those the masterlist gives it
\* together with those the userlist gives it.
C26_GetGroups ==
  QueryReturned("GetGroups") =>
    LET masterlistGroups == database.before.masterlist.groups
        names == GroupNames(masterlistGroups) \cup GroupNames(UserlistGroupsAsked) \cup {DefaultGroup}
    IN /\ GroupNames(database.result.groups) = names
       /\ Cardinality(database.result.groups) = Cardinality(names)
       /\ \A gr \in database.result.groups :
            gr.afterGroups = AfterGroupsIn(masterlistGroups, gr.name) \cup AfterGroupsIn(UserlistGroupsAsked, gr.name)

\* Both documents define "mid" with different after-groups, and the
\* userlist defines the default group with an after-group.
C26_Witness ==
  /\ QueryReturned("GetGroups")
  /\ database.call.includeUserMetadata
  /\ Group("mid", {"early"}) \in database.before.masterlist.groups
  /\ Group("mid", {"late"}) \in database.before.userlist.groups
  /\ Group("mid", {"early", "late"}) \in database.result.groups
  /\ Group(DefaultGroup, {"late"}) \in database.result.groups
  /\ DefaultGroup \notin GroupNames(database.before.masterlist.groups)

-----------------------------------------------------------------------------
(* C27: the list WriteMinimalList builds.                                  *)

\* C27: every entry of the list WriteMinimalList builds is for a plugin of
\* the masterlist that has a tag or dirty info, and has nothing but the
\* name, the tags and the dirty info of that plugin.
C27_MinimalList ==
  QueryReturned("WriteMinimalList") =>
    \A i \in 1..Len(database.result.list) :
      LET entry == database.result.list[i]
      IN \E j \in 1..Len(Plugins(database.before.masterlist)) :
           LET plugin == Plugins(database.before.masterlist)[j]
           IN /\ plugin.tags # <<>> \/ plugin.dirtyInfo # <<>>
              /\ entry = [PluginMetadata(plugin.name) EXCEPT !.tags = plugin.tags, !.dirtyInfo = plugin.dirtyInfo]

-----------------------------------------------------------------------------
(* C29: the group phase and cycles.                                        *)

\* No vertex reaches itself along the edges E.
AcyclicEdges(E) == \A v \in VertexIds : ~HasPath(E, v, v)

GroupEdges == {e \in EdgeSet : e.type = "group"}

\* C29: when the edges of the phases before the group phase have no cycle,
\* they have none together with the group edges.
C29_GroupPhaseAcyclic ==
  AcyclicEdges(PreGroupEdges) => AcyclicEdges(PreGroupEdges \cup GroupEdges)

-----------------------------------------------------------------------------
(* C30: the overlap and tie-break phases and cycles.                       *)

LatePhaseTypes == {"overlap", "tieBreak"}

\* The edges the graph has when the overlap phase starts.
PreOverlapEdges == {e \in EdgeSet : e.type \notin LatePhaseTypes}

\* The group phase is over: Sort is at the overlap phase or beyond it, or
\* its cycle check has thrown.
OverlapPhaseStarted == AfterGroupPhase \/ (pc = "threw" /\ edges # <<>>)

\* The edges added before the i-th.
EdgesBefore(i) == {edges[j] : j \in 1..(i - 1)}

\* C30: no Overlap or TieBreak edge had a path from its target to its
\* source when it was added; and when the edges of the earlier phases have
\* no cycle, neither has the graph, and Sort throws no
\* CyclicInteractionError.
C30_LatePhasesAcyclic ==
  /\ \A i \in 1..Len(edges) :
       edges[i].type \in LatePhaseTypes => ~HasPath(EdgesBefore(i), edges[i].to, edges[i].from)
  /\ (OverlapPhaseStarted /\ AcyclicEdges(PreOverlapEdges)) =>
       /\ AcyclicEdges(EdgeSet)
       /\ ~CheckForCycles(graph)
       /\ error # "CyclicInteractionError"

\* No edge joins u and v.
NotJoined(u, v) == \A e \in EdgeSet : {e.from, e.to} # {u, v}

\* Sort returned with an Overlap edge; the overlap edge u -> v was left
\* out because a path led from v to u, no edge joining the two, and so was
\* the tie-break edge between them.
C30_Witness ==
  /\ Returned
  /\ \E i \in 1..Len(edges) : edges[i].type = "overlap"
  /\ \E u, v \in VertexIds :
       /\ vertices[u].formIDs \cap vertices[v].formIDs # {}
       /\ Cardinality(vertices[u].formIDs) > Cardinality(vertices[v].formIDs)
       /\ NotJoined(u, v)
       /\ HasPath(EdgeSet, v, u)

-----------------------------------------------------------------------------
(* C31: what EdgeCreatesCycle returns.                                     *)

EdgeCreatesCycleReturned == probe.pc = "EdgeCreatesCycle"

\* C31: EdgeCreatesCycle(from, to) on distinct vertices returns true iff
\* the graph has a path from `to` to `from`, whatever the paths cache held
\* before, and leaves the edges as they were.
C31_EdgeCreatesCycle ==
  EdgeCreatesCycleReturned =>
    /\ probe.result <=> HasPath(EdgeSet, probe.to, probe.from)
    /\ edges = probe.edges

\* EdgeCreatesCycle found a path that the paths cache did not have and
\* that is no single edge, with other paths cached.
C31_Witness ==
  /\ EdgeCreatesCycleReturned
  /\ probe.size > 0
  /\ ~probe.cachedBack
  /\ probe.result
  /\ NotJoined(probe.to, probe.from)

-----------------------------------------------------------------------------
(* C32: the paths cache is sound.                                          *)

\* s is the beginning of t.
IsPrefix(s, t) == Len(s) <= Len(t) /\ SubSeq(t, 1, Len(s)) = s

\* C32: every pair of the paths cache is joined by a path of one or more
\* edges; no call removes or changes an edge; AddEdge adds nothing for a
\* pair that the paths cache has; and no two edges join the same vertices
\* in the same direction.
C32_PathsCacheSound ==
  /\ \A path \in pathsCache : HasPath(EdgeSet, path[1], path[2])
  /\ probe # Idle => IsPrefix(probe.edges, edges)
  /\ (probe.pc = "AddEdge" /\ probe.cached) => edges = probe.edges
  /\ \A i, j \in 1..Len(edges) :
       (edges[i].from = edges[j].from /\ edges[i].to = edges[j].to) => i = j

\* AddEdge was called for a pair that a search had put into the paths
\* cache, no edge joining the pair, and added nothing.
C32_Witness ==
  /\ probe.pc = "AddEdge"
  /\ probe.cached
  /\ edges = probe.edges
  /\ \A e \in EdgeSet : <<e.from, e.to>> # <<probe.from, probe.to>>
  /\ Cardinality(pathsCache) > Len(edges)

-----------------------------------------------------------------------------
(* C33: the groups on the paths between two groups.                        *)

GetGroupsInPathsReturned == probe.pc = "getGroupsInPaths"

\* One group is another, or after-edges lead from it to the other.
AfterReaches(groups, from, to) == from = to \/ AfterPath(groups, from, to)

\* The groups on the after-paths that lead from one group to another, the
\* two ends included.
GroupsOnPaths(groups, from, to) ==
  {n \in GroupNames(groups) :
     AfterReaches(groups, from, n) /\ AfterReaches(groups, n, to)}

(* C33 (as claimed): getGroupsInPaths(groups, from, to), for two different *)
(* groups, returns exactly the groups that are on an after-path leading    *)
(* from `to` to `from`, and the empty set when there is no such path.      *)
C33_GroupsInPaths ==
  (GetGroupsInPathsReturned /\ probe.from # probe.to) =>
    probe.result = GroupsOnPaths(resolver.groups, probe.to, probe.from)

(* C33 (amended): getGroupsInPaths(groups, from, to) returns exactly the   *)
(* groups other than `from` and `to` that are on an after-path leading     *)
(* from `to` to `from`, and the empty set when there is no such path.      *)
C33_GroupsStrictlyBetween ==
  GetGroupsInPathsReturned =>
    probe.result =
      GroupsOnPaths(resolver.groups, probe.to, probe.from) \ {probe.from, probe.to}

\* The groups a; b after a; c after a and b: of the two paths from c to a,
\* one goes through b.
C33_Witness ==
  /\ GetGroupsInPathsReturned
  /\ resolver.groups = {Group("a", {}), Group("b", {"a"}), Group("c", {"a", "b"})}
  /\ probe.from = "a"
  /\ probe.to = "c"
  /\ probe.result = {"b"}

-----------------------------------------------------------------------------
(* C34: what the scan of the group phase records in the ignore map.        *)

\* The pairs (parent, v) of the scan: parent is one of v's after-group
\* plugins.
ScannedPair(parent, v) == vertices[parent].name \in vertices[v].afterGroupPlugins

\* parent is not a master and v is one.
MasterAfterNonMaster(parent, v) ==
  ~vertices[parent].isMaster /\ vertices[v].isMaster

\* The pairs for which the scan records a plugin, and the plugin.
Recording(parent, v) ==
  /\ ScannedPair(parent, v)
  /\ ClosesCycle(parent, v)
  /\ ~MasterAfterNonMaster(parent, v)
  /\ InDefaultGroup(parent, v)

RecordedPlugin(parent, v) ==
  IF vertices[v].group = DefaultGroup THEN vertices[v].name
  ELSE vertices[parent].name

\* The ignore map as a set of (group, plugin) pairs.
IgnoreMapEntries ==
  UNION {{<<gn, n>> : n \in groupPluginsToIgnore[gn]} :
           gn \in DOMAIN groupPluginsToIgnore}

\* (parent, v) is one of the queued pairs.
Queued(parent, v) ==
  \E i \in 1..Len(acyclicEdgePairs) : acyclicEdgePairs[i] = <<parent, v>>

(* C34: once the group phase is over, the ignore map holds exactly the     *)
(* entries (group, plugin) recorded for the scanned pairs (parent, v) that *)
(* close a cycle, are not (non-master parent, master v) and have a plugin  *)
(* in the default group: the plugin is v if v is in the default group and  *)
(* otherwise parent, the groups are those between the two groups; no group *)
(* of the map has an empty set; and no cycle-closing pair is queued or     *)
(* gets a Group edge.                                                      *)
C34_IgnoreMapFrame ==
  AfterGroupPhase =>
    /\ IgnoreMapEntries =
         UNION {{<<gn, RecordedPlugin(parent, v)>> :
                   gn \in GroupsBetween(vertices[parent].group, vertices[v].group)} :
                  <<parent, v>> \in {pr \in VertexIds \X VertexIds :
                                       Recording(pr[1], pr[2])}}
    /\ \A gn \in DOMAIN groupPluginsToIgnore : groupPluginsToIgnore[gn] # {}
    /\ \A parent, v \in VertexIds :
         (ScannedPair(parent, v) /\ ClosesCycle(parent, v)) =>
           ~Queued(parent, v) /\ ~HasEdgeOfType(parent, v, "group")

\* The scan recorded a plugin for one pair, and dropped another pair that
\* closes a cycle without recording anything for it.
C34_Witness ==
  /\ AfterGroupPhase
  /\ IgnoreMapEntries # {}
  /\ \E parent, v \in VertexIds : Recording(parent, v)
  /\ \E parent, v \in VertexIds :
       /\ ScannedPair(parent, v) /\ ClosesCycle(parent, v)
       /\ ~Recording(parent, v)

-----------------------------------------------------------------------------
(* C35: the two passes of the group phase.                                 *)

\* What both readings of C35 say of the scan: the queued pairs are the
\* scanned pairs that close no cycle with the edges of the earlier phases
\* (no Group edge is in the graph while the scan runs), and every Group
\* edge is a queued pair that the final ignore map does not mute.
ScanBeforeEdges ==
  /\ \A parent, v \in VertexIds :
       Queued(parent, v) <=> (ScannedPair(parent, v) /\ ~ClosesCycle(parent, v))
  /\ \A e \in GroupEdges : Queued(e.from, e.to) /\ ~Muted(e.from, e.to)

(* C35 (as claimed): once the group phase is over, no Group edge was in    *)
(* the graph during the scan, and a queued pair parent -> v has a Group    *)
(* edge iff the ignore map at the end of the scan has neither (parent's    *)
(* group, v's name) nor (v's group, parent's name).                        *)
C35_TwoPassGroupEdges ==
  AfterGroupPhase =>
    /\ ScanBeforeEdges
    /\ \A parent, v \in VertexIds :
         Queued(parent, v) =>
           (HasEdgeOfType(parent, v, "group") <=> ~Muted(parent, v))

(* C35 (amended): the same, but a queued pair that the ignore map does not *)
(* mute gets its Group edge only if the paths cache does not have the pair *)
(* yet: otherwise an earlier edge or path already leads from parent to v,  *)
(* and AddEdge adds nothing.                                               *)
C35_TwoPassUnlessCached ==
  AfterGroupPhase =>
    /\ ScanBeforeEdges
    /\ \A parent, v \in VertexIds :
         Queued(parent, v) =>
           /\ Muted(parent, v) => ~HasEdgeOfType(parent, v, "group")
           /\ ~Muted(parent, v) =>
                /\ <<parent, v>> \in pathsCache
                /\ \/ HasEdgeOfType(parent, v, "group")
                   \/ HasPath((PreGroupEdges \cup GroupEdges), parent, v)

\* A pair was queued and is muted by an ignore decision that the scan made
\* at a later vertex; another queued pair got its Group edge.
C35_Witness ==
  /\ AfterGroupPhase
  /\ \E parent, v \in VertexIds :
       /\ Queued(parent, v) /\ Muted(parent, v)
       /\ \A p2, v2 \in VertexIds : Recording(p2, v2) => v < v2
  /\ \E parent, v \in VertexIds :
       Queued(parent, v) /\ HasEdgeOfType(parent, v, "group")

-----------------------------------------------------------------------------
(* C36: the Overlap edges.                                                 *)

\* The override records of a vertex.
Overrides(v) == vertices[v].formIDs

\* An edge of E joins u and v directly, in one direction or the other.
DirectlyJoined(E, u, v) ==
  \E e \in E : <<e.from, e.to>> \in {<<u, v>>, <<v, u>>}

(* C36: every Overlap edge a -> b of the graph joins two plugins that both *)
(* have override records, some of them in common, a having strictly more   *)
(* of them than b (so no Overlap edge joins two plugins with equally many) *)
(* and, among the edges added before it, no edge joins a and b directly in *)
(* either direction and no path leads from b to a.                         *)
C36_OverlapEdges ==
  \A i \in 1..Len(edges) :
    edges[i].type = "overlap" =>
      LET a == edges[i].from
          b == edges[i].to
      IN /\ Overrides(a) # {}
         /\ Overrides(b) # {}
         /\ Overrides(a) \cap Overrides(b) # {}
         /\ Cardinality(Overrides(a)) > Cardinality(Overrides(b))
         /\ ~DirectlyJoined(EdgesBefore(i), a, b)
         /\ ~HasPath(EdgesBefore(i), b, a)

\* The overlap phase added an Overlap edge and added none for two plugins
\* with common override records, one with more of them than the other,
\* that no edge joins directly: a path that ends with the Overlap edge
\* leads from the one with fewer to the one with more.
C36_Witness ==
  /\ \E e \in EdgeSet : e.type = "overlap"
  /\ \E a, b \in VertexIds :
       /\ Overrides(a) \cap Overrides(b) # {}
       /\ Cardinality(Overrides(a)) > Cardinality(Overrides(b))
       /\ ~DirectlyJoined(EdgeSet, a, b)
       /\ HasPath({e \in EdgeSet : e.type \notin {"tieBreak"}}, b, a)
       /\ ~HasPath(PreOverlapEdges, b, a)

-----------------------------------------------------------------------------
(* C37: each Sort is a fresh computation.                                  *)

\* Sort was called a second time on the sorter.
SortedAgain == probe.pc = "again"

\* What Sort can return or throw on a game with a sorter that has sorted
\* nothing before, whatever the iteration orders of the unordered sets.
FreshResults(gm) ==
  {Sort(gm, order, hashOrder) :
     order \in Enumerations(gm.plugins), hashOrder \in {"ascending", "descending"}}

(* C37: Sort starts from an empty graph and an empty paths cache whatever  *)
(* an earlier call left, and what a second call on the same sorter returns *)
(* or throws is what a call on a new sorter can return or throw for the    *)
(* same game snapshot, whether the first call returned or threw.           *)
C37_FreshComputation ==
  /\ (pc \notin {"idle", "start"}) =>
       \A path \in pathsCache : HasPath(EdgeSet, path[1], path[2])
  /\ (pc \notin {"idle", "start", "threw"}) => Len(vertices) = Cardinality(game.plugins)
  /\ (SortedAgain /\ pc \in {"returned", "threw"}) =>
       [output |-> output, error |-> error] \in FreshResults(game)

\* The first call threw CyclicInteractionError and left a graph with edges
\* and a paths cache; the second call, on another snapshot with as many
\* plugins or more, returned an order.
C37_Witness ==
  /\ SortedAgain
  /\ probe.error = "CyclicInteractionError"
  /\ probe.graph.e # <<>>
  /\ probe.graph.p # {}
  /\ Returned
  /\ game # probe.game
  /\ Len(output) >= Len(probe.graph.v)

-----------------------------------------------------------------------------
(* C38: the CRC of 0 as the sign of no CRC.                                *)

GetCrcReturned == probe.pc = "getCrc"

\* What both readings of C38 say of a call of getCrc: a stored CRC other
\* than 0 is returned with no other call than GetCachedCrc and no change of
\* the stored CRCs; otherwise the CRC is computed again (from the cached
\* plugin or from the file), and a computed CRC of 0 leaves GetCachedCrc at
\* 0 for the file, so that the next call computes it again.
HitOrRecompute ==
  /\ probe.stored # 0 =>
       /\ probe.value = probe.stored
       /\ probe.calls = {"GetCachedCrc"}
       /\ cache.crcs = probe.crcs
  /\ probe.stored = 0 => probe.calls \cap {"GetPlugin", "filesystem"} # {}
  /\ probe.value = 0 => GetCachedCrc(cache, probe.file) = 0
  /\ (probe.again /\ probe.value = 0) => "filesystem" \in probe.calls

(* C38 (as claimed): GetCachedCrc gives 0 for a file iff no CRC is stored  *)
(* under its lowercased name; getCrc returns a stored CRC other than 0     *)
(* without computing it again; no stored CRC is 0; and a call for a file   *)
(* whose CRC is 0 or that does not exist computes the CRC again and stores *)
(* nothing.                                                                *)
C38_CrcSentinel ==
  /\ \A file \in CrcFiles :
       GetCachedCrc(cache, file) = 0 <=> ToLower(file) \notin DOMAIN cache.crcs
  /\ \A k \in DOMAIN cache.crcs : cache.crcs[k] # 0
  /\ GetCrcReturned =>
       /\ HitOrRecompute
       /\ probe.value = 0 => cache.crcs = probe.crcs

(* C38 (amended): the same for every file but "LOOT", the host executable, *)
(* whose computed CRC is stored even when it is 0: GetCachedCrc gives 0    *)
(* for a file iff no CRC or a CRC of 0 is stored under its lowercased      *)
(* name, and only "LOOT" can have a stored CRC of 0.                       *)
C38_CrcSentinelButHost ==
  /\ \A file \in CrcFiles :
       GetCachedCrc(cache, file) = 0 <=>
         (ToLower(file) \in DOMAIN cache.crcs => cache.crcs[ToLower(file)] = 0)
  /\ \A k \in DOMAIN cache.crcs : cache.crcs[k] = 0 => k = ToLower(LOOT)
  /\ GetCrcReturned =>
       /\ HitOrRecompute
       /\ (probe.value = 0 /\ probe.file # LOOT) => cache.crcs = probe.crcs

\* getCrc was called twice in a row for x.esp, an empty file: both calls
\* returned 0, the second read the file again, and nothing is stored for
\* it, while the CRC of another file is stored.
C38_Witness ==
  /\ GetCrcReturned
  /\ probe.file = x_esp
  /\ {x_esp, Emptied(x_esp)} \subseteq dataFiles
  /\ probe.again
  /\ probe.value = 0
  /\ "filesystem" \in probe.calls
  /\ ToLower(x_esp) \notin DOMAIN cache.crcs
  /\ cache.crcs # EmptyMap

-----------------------------------------------------------------------------
(* C39: LoadLists replaces both documents or none.                         *)

LoadListsDone == probe.pc = "LoadLists"

\* A non-empty path that does not exist, or whose file cannot be loaded.
Unloadable(path) == path.given /\ (~path.exists \/ path.content = <<>>)

\* The document a path stands for: that of its file, or an empty one for
\* an empty path.
ListAt(path) == IF path.given THEN path.content[1] ELSE EmptyList

(* C39: when a non-empty path given to LoadLists does not exist or its     *)
(* file cannot be loaded, LoadLists throws (FileAccessError for the path   *)
(* that does not exist) and the masterlist and the userlist are what they  *)
(* were before the call; otherwise it returns and both are replaced, an    *)
(* empty path giving an empty document.                                    *)
C39_LoadListsAllOrNothing ==
  LoadListsDone =>
    IF Unloadable(probe.masterlistPath) \/ Unloadable(probe.userlistPath)
    THEN /\ database.pc = "threw"
         /\ database.masterlist = database.before.masterlist
         /\ database.userlist = database.before.userlist
         /\ ~probe.masterlistPath.exists /\ probe.masterlistPath.given
              => probe.threw = "FileAccessError"
         /\ (~Unloadable(probe.masterlistPath) /\ ~probe.userlistPath.exists)
              => probe.threw = "FileAccessError"
    ELSE /\ database.pc = "returned"
         /\ probe.threw = ""
         /\ database.masterlist = ListAt(probe.masterlistPath)
         /\ database.userlist = ListAt(probe.userlistPath)

\* The masterlist's file was loaded, the userlist's path does not exist:
\* LoadLists threw FileAccessError and the database has the masterlist it
\* had, which is not the one of the file.
C39_Witness ==
  /\ LoadListsDone
  /\ database.pc = "threw"
  /\ probe.threw = "FileAccessError"
  /\ probe.masterlistPath.content # <<>>
  /\ probe.userlistPath = MissingFile
  /\ database.masterlist = database.before.masterlist
  /\ database.masterlist # probe.masterlistPath.content[1]
  /\ database.masterlist # EmptyList

-----------------------------------------------------------------------------
(* C40: concurrent calls of evaluate for one condition.                    *)

\* The thread's call of evaluate returned, for a condition that is not
\* empty.
ThreadReturned(t) == threads[t].pc = "returned" /\ threads[t].condition # <<>>

(* C40: no cache clear happening, every call of evaluate for a non-empty   *)
(* condition that has returned gave the value the condition cache holds    *)
(* for the condition, whatever the other thread and the game's files did   *)
(* in between.                                                             *)
C40_ConcurrentEvaluate ==
  \A t \in EvalThreads :
    ThreadReturned(t) =>
      GetCachedCondition(cache, threads[t].condition) = <<threads[t].value, TRUE>>

=============================================================================
